---- MODULE Spec2Model ----
(***************************************************************************)
(* A model of the geometric core of astroeph-api: the angle utilities, the *)
(* aspect engine, house assignment, the composite (midpoint) calculators   *)
(* and the anti-overlap placement of body symbols on a wheel.              *)
(*                                                                         *)
(* Angles are float64 degrees in the Go code.  Here an angle is an         *)
(* integer number of units of 1/Scale degree.  Scale is chosen so that     *)
(* every value the modelled code computes from inputs in whole degrees is  *)
(* an integer: the 0.1 degree of the placement step is Scale/10 units,     *)
(* and the halvings of the merge and of the midpoint stay exact.           *)
(***************************************************************************)
EXTENDS Integers, Sequences, FiniteSets, TLC

\* units per degree: tenths of a degree, halved once more
Scale == 2 * 10

Deg(d) == d * Scale

\* 360 degrees and 180 degrees, in units
Full == Deg(360)

Half == Deg(180)

Abs(x) == IF x < 0 THEN -x ELSE x

Min(a, b) == IF a < b THEN a ELSE b

\* Go's math.Mod: the result has the sign of the dividend
FMod(x, m) == IF x >= 0 THEN x % m ELSE -((-x) % m)

Reverse(s) == [k \in 1..Len(s) |-> s[Len(s) + 1 - k]]

(***************************************************************************)
(* Bounds of the model.                                                    *)
(***************************************************************************)
\* largest number of bodies on one ring
MaxBodies == 3

\* passes of one relaxation loop the model follows before it gives up
MaxPasses == 8

\* largest number of planets in a source chart of a composite
MaxPlanets == 2

(***************************************************************************)
(* Program constants.                                                      *)
(***************************************************************************)
OuterMinDegree == 8

InnerMinDegree == 9

VARIABLES
    pc,         \* position of the modelled call
    degrees,    \* adjustedDegrees: the sorted input positions
    minDegree,  \* adjustedDegrees: the minimum separation, in whole degrees
    fwdDegs,    \* adjustedDegrees: forward array
    bwdDegs,    \* adjustedDegrees: backward array (reversed while relaxing)
    changed,    \* adjustedDegrees: the loop flag
    idx,        \* adjustedDegrees: the inner loop index i (0-based)
    fwdPasses,  \* passes of the forward loop started so far
    bwdPasses,  \* passes of the backward loop started so far
    avgAdj,     \* adjustedDegrees: the result
    lon1,       \* angle utilities and NewAspect: first longitude
    lon2,       \* angle utilities and NewAspect: second longitude
    speed1,     \* NewAspect: daily speed of the first body
    speed2,     \* NewAspect: daily speed of the second body
    aspect,     \* NewAspect: the returned *Aspect, or Nil
    distance,   \* AngularDistance(lon1, lon2) as returned
    midDrawer,  \* ChartDrawer.calculateMidpoint(lon1, lon2) as returned
    midService, \* CompositeService.calculateMidpoint(lon1, lon2) as returned
    planetLon,  \* house assignment: the longitude to place
    houseCusps, \* house assignment: the cusp longitudes
    houseAstro, \* HouseCalculator.DetermineHouseForPlanet as returned
    houseChart, \* getHouseForLongitude as returned
    houseService, \* AstrologyService.getHouseForPlanet as returned
    planets1,   \* composite: the planets of chart 1, in the chart's order
    planets2,   \* composite: the planets of chart 2, in the chart's order
    compService,\* CompositeService.calculateMidpointPlanets as returned
    compDrawer, \* the planets of ChartDrawer.calculateCompositeChart's chart
    aspectOrbs, \* AspectCalculator.aspectOrbs
    planetOrbs, \* AspectCalculator.planetOrbs
    enabledAspects, \* AspectCalculator.enabledAspects
    calcPlanets,\* the planets handed to the calculator
    calcAspects,\* the slice the calculator's last calculation returned
    calcStrengths, \* GetAspectStrength of each aspect of that slice, as returned
    configCalls,\* configuration calls made on the calculator so far
    angles1,    \* chart angles: Ascendant and Midheaven values of chart 1
    angles2,    \* chart angles: Ascendant and Midheaven values of chart 2
    chartAngles,\* the Angles of the chart SetAngles was last called on, or Nil
    rawData,    \* raw render: the *RawChartData of the request, or Nil
    rawResponse,\* raw render: what GenerateNatalChartSVGFromRawData returned
    svgChart1,  \* two-chart render: the first chart of the request
    svgChart2,  \* two-chart render: the second chart of the request
    svgResponse,\* two-chart render: what GenerateCompositeChartSVG returned
    perIteration, \* the build gives a range loop one variable per iteration
    clock,      \* chart drawer: what time.Now() returns, in half seconds
    domainChart,\* chart drawer: the *domain.Chart both calls are given
    drawn1,     \* chart drawer: raw data and SVG of the first GenerateNatalChart
    drawn2,     \* chart drawer: raw data and SVG of the second GenerateNatalChart
    orbConfig,  \* aspect detection: the Config the chart data carries
    orbBodies,  \* aspect detection: the two aspectable bodies
    orbAspects  \* aspect detection: the aspects the detection returned

adjVars == <<degrees, minDegree, fwdDegs, bwdDegs, changed, idx, fwdPasses, bwdPasses, avgAdj>>

pairVars == <<lon1, lon2, speed1, speed2>>

aspVars == <<aspect>>

angVars == <<distance, midDrawer, midService>>

houseVars == <<planetLon, houseCusps, houseAstro, houseChart, houseService>>

compVars == <<planets1, planets2, compService, compDrawer>>

calcVars ==
    <<aspectOrbs, planetOrbs, enabledAspects, calcPlanets, calcAspects, calcStrengths, configCalls>>

anglesVars == <<angles1, angles2, chartAngles>>

drawVars == <<clock, domainChart, drawn1, drawn2>>

orbVars == <<orbConfig, orbBodies, orbAspects>>

renderVars ==
    <<rawData, rawResponse, svgChart1, svgChart2, svgResponse, perIteration, drawVars, orbVars>>

vars == <<pc, adjVars, pairVars, aspVars, angVars, houseVars, compVars, calcVars, anglesVars, renderVars>>

\* everything but the variables of one component
notAdj == <<pairVars, aspVars, angVars, houseVars, compVars, calcVars, anglesVars, renderVars>>

notPair == <<adjVars, houseVars, compVars, calcVars, anglesVars, renderVars>>

notHouse == <<adjVars, pairVars, aspVars, angVars, compVars, calcVars, anglesVars, renderVars>>

notComp == <<adjVars, pairVars, aspVars, angVars, houseVars, calcVars, anglesVars, renderVars>>

notCalc == <<adjVars, pairVars, aspVars, angVars, houseVars, compVars, anglesVars, renderVars>>

notAngles == <<adjVars, pairVars, aspVars, angVars, houseVars, compVars, calcVars, renderVars>>

notRender == <<adjVars, pairVars, aspVars, angVars, houseVars, compVars, calcVars, anglesVars>>

\* a nil pointer, and a result not computed yet
Nil == [nil |-> TRUE]

\* the variables of a component that the specification at hand does not run
AdjIdle ==
    /\ degrees = <<>>
    /\ minDegree = 0
    /\ fwdDegs = <<>>
    /\ bwdDegs = <<>>
    /\ changed = FALSE
    /\ idx = 0
    /\ fwdPasses = 0
    /\ bwdPasses = 0
    /\ avgAdj = <<>>

PairIdle == lon1 = 0 /\ lon2 = 0 /\ speed1 = 0 /\ speed2 = 0

AspIdle == aspect = Nil

AngIdle == distance = -1 /\ midDrawer = -1 /\ midService = -1

HouseIdle ==
    planetLon = 0 /\ houseCusps = <<>> /\ houseAstro = 0 /\ houseChart = 0 /\ houseService = 0

CompIdle == planets1 = <<>> /\ planets2 = <<>> /\ compService = Nil /\ compDrawer = Nil

CalcIdle ==
    /\ aspectOrbs = <<>>
    /\ planetOrbs = <<>>
    /\ enabledAspects = <<>>
    /\ calcPlanets = <<>>
    /\ calcAspects = <<>>
    /\ calcStrengths = <<>>
    /\ configCalls = 0

AnglesIdle == angles1 = <<>> /\ angles2 = <<>> /\ chartAngles = Nil

DrawIdle == clock = 0 /\ domainChart = Nil /\ drawn1 = Nil /\ drawn2 = Nil

OrbIdle == orbConfig = Nil /\ orbBodies = <<>> /\ orbAspects = <<>>

RenderIdle ==
    /\ DrawIdle
    /\ OrbIdle
    /\ rawData = Nil
    /\ rawResponse = Nil
    /\ svgChart1 = Nil
    /\ svgChart2 = Nil
    /\ svgResponse = Nil
    /\ perIteration = FALSE

(***************************************************************************)
(* Anti-overlap placement: Chart.generateBodyWheel / Chart.adjustedDegrees *)
(***************************************************************************)
\* whole-degree positions a ring is tried with
SampleDegrees == {0, 1, 4, 100, 101, 102, 200, 352, 359}

\* minimum separations tried, in whole degrees
SampleMinDegrees == {2, OuterMinDegree, InnerMinDegree}

\* the lists generateBodyWheel hands over: sorted ascending by sort.Slice
AscendingLists(n) ==
    {s \in [1..n -> {Deg(d) : d \in SampleDegrees}] :
        \A k \in 1..(n - 1) : s[k] <= s[k + 1]}

\* a step that falls short of the minimum separation
StepShort(md) == Deg(md) - Scale \div 10

\* step := minDegree + 0.1
Step(md) == Deg(md) + Scale \div 10

\* one iteration of the inner loop of the forward adjustment, at 0-based i
FwdPrev(f, i) == IF i = 0 THEN f[Len(f)] - Full ELSE f[i]

\* a forward test that also moves a position exactly minDegree away
FwdMovesInclusive(f, i, md) ==
    LET prevDeg == FwdPrev(f, i)
        delta == f[i + 1] - prevDeg
        diff == Min(delta, Full - delta)
    IN  f[i + 1] < prevDeg \/ diff <= Deg(md)

FwdMoves(f, i, md) ==
    LET prevDeg == FwdPrev(f, i)
        delta == f[i + 1] - prevDeg
        diff == Min(delta, Full - delta)
    IN  f[i + 1] < prevDeg \/ diff < Deg(md)

\* one iteration of the inner loop of the backward adjustment, at 0-based i
BwdPrev(b, i) == IF i = 0 THEN b[Len(b)] + Full ELSE b[i]

BwdMoves(b, i, md) ==
    LET prevDeg == BwdPrev(b, i)
        delta == prevDeg - b[i + 1]
        diff == Min(delta, Full - delta)
    IN  prevDeg < b[i + 1] \/ diff < Deg(md)

\* the average of the forward and the backward result of one index
Average(fraw, braw) ==
    LET fwd == FMod(fraw, Full)
        bwd == FMod(braw, Full)
    IN  IF Abs(fwd - bwd) < Half
        THEN (fwd + bwd) \div 2
        ELSE FMod((fwd + bwd + Full) \div 2, Full)

InitAdj ==
    /\ pc = "wheel"
    /\ \E n \in 1..MaxBodies : degrees \in AscendingLists(n)
    /\ minDegree \in SampleMinDegrees
    /\ fwdDegs = <<>>
    /\ bwdDegs = <<>>
    /\ changed = FALSE
    /\ idx = 0
    /\ fwdPasses = 0
    /\ bwdPasses = 0
    /\ avgAdj = <<>>
    /\ PairIdle /\ AspIdle /\ AngIdle /\ HouseIdle /\ CompIdle /\ CalcIdle /\ AnglesIdle /\ RenderIdle

\* a body wheel that runs adjustedDegrees whatever the number of bodies
WheelSingleAdjusted ==
    /\ pc = "wheel"
    /\ ~(Len(degrees) > 1)
    /\ fwdDegs' = degrees
    /\ bwdDegs' = Reverse(degrees)
    /\ changed' = FALSE
    /\ idx' = 0
    /\ fwdPasses' = 1
    /\ pc' = "fwd"
    /\ UNCHANGED <<degrees, minDegree, bwdPasses, avgAdj, notAdj>>

\* generateBodyWheel with one body: adjustedDegrees is not called
WheelSingle ==
    /\ pc = "wheel"
    /\ ~(Len(degrees) > 1)
    /\ avgAdj' = degrees
    /\ pc' = "done"
    /\ UNCHANGED <<degrees, minDegree, fwdDegs, bwdDegs, changed, idx, fwdPasses, bwdPasses, notAdj>>

\* generateBodyWheel calls adjustedDegrees: the copies, the reversal of the
\* backward array, and the entry into the first forward pass
AdjEnter ==
    /\ pc = "wheel"
    /\ Len(degrees) > 1
    /\ fwdDegs' = degrees
    /\ bwdDegs' = Reverse(degrees)
    /\ changed' = FALSE
    /\ idx' = 0
    /\ fwdPasses' = 1
    /\ pc' = "fwd"
    /\ UNCHANGED <<degrees, minDegree, bwdPasses, avgAdj, notAdj>>

FwdStep ==
    /\ pc = "fwd"
    /\ idx < Len(degrees)
    /\ IF FwdMoves(fwdDegs, idx, minDegree)
       THEN /\ fwdDegs' = [fwdDegs EXCEPT ![idx + 1] = FwdPrev(fwdDegs, idx) + Step(minDegree)]
            /\ changed' = TRUE
       ELSE UNCHANGED <<fwdDegs, changed>>
    /\ idx' = idx + 1
    /\ UNCHANGED <<pc, degrees, minDegree, bwdDegs, fwdPasses, bwdPasses, avgAdj, notAdj>>

\* end of a forward pass that changed something: the loop runs again
FwdAgain ==
    /\ pc = "fwd"
    /\ idx = Len(degrees)
    /\ changed
    /\ fwdPasses < MaxPasses
    /\ changed' = FALSE
    /\ idx' = 0
    /\ fwdPasses' = fwdPasses + 1
    /\ UNCHANGED <<pc, degrees, minDegree, fwdDegs, bwdDegs, bwdPasses, avgAdj, notAdj>>

\* end of a forward pass that changed nothing: the backward loop starts
FwdExit ==
    /\ pc = "fwd"
    /\ idx = Len(degrees)
    /\ ~changed
    /\ changed' = FALSE
    /\ idx' = 0
    /\ bwdPasses' = 1
    /\ pc' = "bwd"
    /\ UNCHANGED <<degrees, minDegree, fwdDegs, bwdDegs, fwdPasses, avgAdj, notAdj>>

BwdStep ==
    /\ pc = "bwd"
    /\ idx < Len(degrees)
    /\ IF BwdMoves(bwdDegs, idx, minDegree)
       THEN /\ bwdDegs' = [bwdDegs EXCEPT ![idx + 1] = BwdPrev(bwdDegs, idx) - Step(minDegree)]
            /\ changed' = TRUE
       ELSE UNCHANGED <<bwdDegs, changed>>
    /\ idx' = idx + 1
    /\ UNCHANGED <<pc, degrees, minDegree, fwdDegs, fwdPasses, bwdPasses, avgAdj, notAdj>>

BwdAgain ==
    /\ pc = "bwd"
    /\ idx = Len(degrees)
    /\ changed
    /\ bwdPasses < MaxPasses
    /\ changed' = FALSE
    /\ idx' = 0
    /\ bwdPasses' = bwdPasses + 1
    /\ UNCHANGED <<pc, degrees, minDegree, fwdDegs, bwdDegs, fwdPasses, avgAdj, notAdj>>

\* end of a backward pass that changed nothing: the backward array is
\* reversed back, the two results are averaged, and the call returns
BwdExitMerge ==
    /\ pc = "bwd"
    /\ idx = Len(degrees)
    /\ ~changed
    /\ bwdDegs' = Reverse(bwdDegs)
    /\ avgAdj' = [k \in 1..Len(degrees) |-> Average(fwdDegs[k], Reverse(bwdDegs)[k])]
    /\ pc' = "done"
    /\ UNCHANGED <<degrees, minDegree, fwdDegs, changed, idx, fwdPasses, bwdPasses, notAdj>>

NextAdj ==
    \/ WheelSingle
    \/ AdjEnter
    \/ FwdStep
    \/ FwdAgain
    \/ FwdExit
    \/ BwdStep
    \/ BwdAgain
    \/ BwdExitMerge

SpecAdj == InitAdj /\ [][NextAdj]_vars

\* generateBodyWheel is straight-line code run by the calling goroutine:
\* a statement that can be executed is executed
SpecAdjFair == SpecAdj /\ WF_vars(NextAdj)

(***************************************************************************)
(* Angle utilities: domain.normalizeAngle, domain.AngularDistance and the  *)
(* two calculateMidpoint methods (ChartDrawer, CompositeService).          *)
(***************************************************************************)
\* for angle < 0 { angle += 360 }; for angle >= 360 { angle -= 360 }
RECURSIVE normalizeAngle(_)
normalizeAngle(angle) ==
    IF angle < 0 THEN normalizeAngle(angle + Full)
    ELSE IF angle >= Full THEN normalizeAngle(angle - Full)
    ELSE angle

\* AngularDistance with the fold of distances over 180 left out
AngularDistanceNoWrap(l1, l2) == Abs(normalizeAngle(l1) - normalizeAngle(l2))

\* AngularDistance with the absolute value left out
AngularDistanceSigned(l1, l2) ==
    LET diff == normalizeAngle(l1) - normalizeAngle(l2)
    IN  IF diff > Half THEN Full - diff ELSE diff

AngularDistance(l1, l2) ==
    LET diff == Abs(normalizeAngle(l1) - normalizeAngle(l2))
    IN  IF diff > Half THEN Full - diff ELSE diff

\* the arithmetic difference, with no choice of the shorter arc
ArithmeticArc(n1, n2) == n2 - n1

\* the signed shorter arc from the first to the second normalized longitude
ShorterArc(n1, n2) ==
    LET diff == n2 - n1
    IN  IF diff > Half THEN diff - Full
        ELSE IF diff < -Half THEN diff + Full
        ELSE diff

\* ChartDrawer.calculateMidpoint
calculateMidpoint(l1, l2) ==
    LET n1 == normalizeAngle(l1)
        n2 == normalizeAngle(l2)
    IN  normalizeAngle(n1 + ShorterArc(n1, n2) \div 2)

\* CompositeService.calculateMidpoint: the same text in the service
calculateMidpointService(l1, l2) ==
    LET n1 == normalizeAngle(l1)
        n2 == normalizeAngle(l2)
        diff == n2 - n1
        arc == IF diff > Half THEN diff - Full
               ELSE IF diff < -Half THEN diff + Full
               ELSE diff
    IN  normalizeAngle(n1 + arc \div 2)

\* first longitudes tried, in whole degrees
SampleLon1 == {0, 10, 44, 90, 135, 179, 180, 181, 270, 350, 359, 370, -10}

\* second longitudes tried: every whole degree of the circle, some beyond it
SampleLon2 == (0..359) \cup {-350, -180, -1, 360, 361, 540, 710}

InitAngle ==
    /\ pc = "angle"
    /\ lon1 \in {Deg(d) : d \in SampleLon1}
    /\ lon2 \in {Deg(d) : d \in SampleLon2}
    /\ speed1 = 0
    /\ speed2 = 0
    /\ AspIdle /\ AngIdle /\ AdjIdle /\ HouseIdle /\ CompIdle /\ CalcIdle /\ AnglesIdle /\ RenderIdle

CallAngularDistance ==
    /\ pc = "angle"
    /\ distance' = AngularDistance(lon1, lon2)
    /\ pc' = "distanceDone"
    /\ UNCHANGED <<pairVars, aspVars, midDrawer, midService, notPair>>

CallCalculateMidpoint ==
    /\ pc = "angle"
    /\ midDrawer' = calculateMidpoint(lon1, lon2)
    /\ midService' = calculateMidpointService(lon1, lon2)
    /\ pc' = "midpointDone"
    /\ UNCHANGED <<pairVars, aspVars, distance, notPair>>

NextAngle == CallAngularDistance \/ CallCalculateMidpoint

SpecAngle == InitAngle /\ [][NextAngle]_vars


(***************************************************************************)
(* Aspect engine: domain.GetAspectDefinitions, FindBestAspect,             *)
(* IsAspectApplying and NewAspect.                                         *)
(***************************************************************************)
AspectDef(type, angle, baseOrb, nature) ==
    [Type |-> type, Angle |-> Deg(angle), BaseOrb |-> Deg(baseOrb), Nature |-> nature]

\* a catalog whose quincunx has a base orb of 15 degrees
GetAspectDefinitionsWide ==
    << AspectDef("conjunction", 0, 8, "neutral"),
       AspectDef("sextile", 60, 4, "harmonious"),
       AspectDef("square", 90, 6, "challenging"),
       AspectDef("trine", 120, 7, "harmonious"),
       AspectDef("opposition", 180, 8, "challenging"),
       AspectDef("quincunx", 150, 15, "neutral"),
       AspectDef("semisextile", 30, 1, "neutral"),
       AspectDef("semisquare", 45, 1, "challenging"),
       AspectDef("sesquisquare", 135, 1, "challenging") >>

\* the catalog, in its declaration order
GetAspectDefinitions ==
    << AspectDef("conjunction", 0, 8, "neutral"),
       AspectDef("sextile", 60, 4, "harmonious"),
       AspectDef("square", 90, 6, "challenging"),
       AspectDef("trine", 120, 7, "harmonious"),
       AspectDef("opposition", 180, 8, "challenging"),
       AspectDef("quincunx", 150, 2, "neutral"),
       AspectDef("semisextile", 30, 1, "neutral"),
       AspectDef("semisquare", 45, 1, "challenging"),
       AspectDef("sesquisquare", 135, 1, "challenging") >>

\* the first definition of the given type, or Nil
GetAspectDefinition(aspectType) ==
    LET hits == {k \in DOMAIN GetAspectDefinitions : GetAspectDefinitions[k].Type = aspectType}
    IN  IF hits = {} THEN Nil
        ELSE GetAspectDefinitions[CHOOSE k \in hits : \A j \in hits : k <= j]

\* the deviation of an angle from a definition's exact angle
DefOrb(angle, def) ==
    LET orb == Abs(angle - def.Angle)
    IN  IF orb > Half THEN Full - orb ELSE orb

\* FindBestAspect's test with the base orb excluded from the range
ImprovesStrictlyInside(best, angle, def) ==
    DefOrb(angle, def) < def.BaseOrb /\ DefOrb(angle, def) < best.Orb

\* FindBestAspect's test: within orb and better than the current best
Improves(best, angle, def) ==
    DefOrb(angle, def) <= def.BaseOrb /\ DefOrb(angle, def) < best.Orb

\* the body of FindBestAspect's loop for one definition
FindBestStep(best, angle, def) ==
    IF Improves(best, angle, def)
    THEN [Type |-> def.Type, ExactAngle |-> def.Angle, Orb |-> DefOrb(angle, def)]
    ELSE best

RECURSIVE FindBestFrom(_, _, _)
FindBestFrom(k, best, angle) ==
    IF k > Len(GetAspectDefinitions) THEN best
    ELSE FindBestFrom(k + 1, FindBestStep(best, angle, GetAspectDefinitions[k]), angle)

\* returns (type, exact angle, orb); the type "" stands for no aspect
FindBestAspect(angle) ==
    LET best == FindBestFrom(1, [Type |-> "", ExactAngle |-> 0, Orb |-> Deg(999)], angle)
    IN  IF best.Type = "" THEN [Type |-> "", ExactAngle |-> 0, Orb |-> 0] ELSE best

\* IsAspectApplying with a future angle that is merely no farther
IsAspectApplyingOrSame(l1, l2, s1, s2, exactAngle) ==
    LET currentAngle == AngularDistance(l1, l2)
        futureAngle == AngularDistance(l1 + s1, l2 + s2)
        currentDiff == Abs(currentAngle - exactAngle)
        futureDiff == Abs(futureAngle - exactAngle)
    IN  futureDiff <= currentDiff

IsAspectApplying(l1, l2, s1, s2, exactAngle) ==
    LET currentAngle == AngularDistance(l1, l2)
        futureAngle == AngularDistance(l1 + s1, l2 + s2)
        currentDiff == Abs(currentAngle - exactAngle)
        futureDiff == Abs(futureAngle - exactAngle)
    IN  futureDiff < currentDiff

\* the strength taken as orb/BaseOrb
AspectStrengthInverted(orb, def) ==
    IF def # Nil /\ def.BaseOrb > 0
    THEN [Num |-> orb, Den |-> def.BaseOrb]
    ELSE [Num |-> 1, Den |-> 1]

\* IsExact with an orb of one degree included
IsExactOrbInclusive(orb) == orb <= Deg(1)

\* IsExact: orb < 1.0
IsExactOrb(orb) == orb < Deg(1)

\* strength := 1.0 - orb/BaseOrb, not below 0, as the fraction Num/Den
AspectStrength(orb, def) ==
    IF def # Nil /\ def.BaseOrb > 0
    THEN [Num |-> IF def.BaseOrb - orb < 0 THEN 0 ELSE def.BaseOrb - orb, Den |-> def.BaseOrb]
    ELSE [Num |-> 1, Den |-> 1]

NewAspect(planet1, planet2, l1, l2, s1, s2) ==
    LET angle == AngularDistance(l1, l2)
        found == FindBestAspect(angle)
        def == GetAspectDefinition(found.Type)
    IN  IF found.Type = "" THEN Nil
        ELSE [Planet1 |-> planet1,
              Planet2 |-> planet2,
              Type |-> found.Type,
              Angle |-> angle,
              Orb |-> found.Orb,
              IsApplying |-> IsAspectApplying(l1, l2, s1, s2, found.ExactAngle),
              IsExact |-> IsExactOrb(found.Orb),
              Strength |-> AspectStrength(found.Orb, def),
              Nature |-> def.Nature]

\* daily speeds tried, in units: retrograde, stationary, direct
SampleSpeeds == {-Deg(1), 0, Deg(1)}

\* first longitudes of an aspect pair, in whole degrees
AspectLon1 == {0, 10, 100, 359}

\* second longitudes of an aspect pair: two turns of whole degrees
AspectLon2 == (-5)..725

InitAspect ==
    /\ pc = "aspect"
    /\ lon1 \in {Deg(d) : d \in AspectLon1}
    /\ lon2 \in {Deg(d) : d \in AspectLon2}
    /\ speed1 \in SampleSpeeds
    /\ speed2 \in SampleSpeeds
    /\ AspIdle /\ AngIdle /\ AdjIdle /\ HouseIdle /\ CompIdle /\ CalcIdle /\ AnglesIdle /\ RenderIdle

CallNewAspect ==
    /\ pc = "aspect"
    /\ aspect' = NewAspect("p1", "p2", lon1, lon2, speed1, speed2)
    /\ pc' = "aspectDone"
    /\ UNCHANGED <<pairVars, angVars, notPair>>

NextAspect == CallNewAspect

SpecAspect == InitAspect /\ [][NextAspect]_vars


(***************************************************************************)
(* House assignment: HouseCalculator.DetermineHouseForPlanet with          *)
(* findClosestHouse (internal/astro) and getHouseForLongitude (pkg/chart). *)
(***************************************************************************)
\* for angle < 0 { angle += 360 }; for angle >= 360 { angle -= 360 }
RECURSIVE normalizeAngle360(_)
normalizeAngle360(angle) ==
    IF angle < 0 THEN normalizeAngle360(angle + Full)
    ELSE IF angle >= Full THEN normalizeAngle360(angle - Full)
    ELSE angle

\* the boundary test with the seam case left out
InHouseNoSeam(normLon, cusps, i) ==
    LET currentCusp == normalizeAngle360(cusps[i + 1])
        nextCusp == normalizeAngle360(cusps[((i + 1) % 12) + 1])
    IN  normLon >= currentCusp /\ normLon < nextCusp

\* the boundary test of both functions for the house of 0-based index i
InHouse(normLon, cusps, i) ==
    LET currentCusp == normalizeAngle360(cusps[i + 1])
        nextCusp == normalizeAngle360(cusps[((i + 1) % 12) + 1])
    IN  IF currentCusp > nextCusp
        THEN normLon >= currentCusp \/ normLon < nextCusp
        ELSE normLon >= currentCusp /\ normLon < nextCusp

\* the loop over the houses: the number of the first match, 0 when the loop
\* runs out
RECURSIVE FirstMatch(_, _, _)
FirstMatch(normLon, cusps, i) ==
    IF i >= 12 THEN 0
    ELSE IF InHouse(normLon, cusps, i) THEN i + 1
    ELSE FirstMatch(normLon, cusps, i + 1)

RECURSIVE ClosestFrom(_, _, _, _, _)
ClosestFrom(normLon, cusps, i, minDiff, closestHouse) ==
    IF i >= 12 THEN closestHouse
    ELSE LET raw == Abs(normLon - normalizeAngle360(cusps[i + 1]))
             diff == IF raw > Half THEN Full - raw ELSE raw
         IN  IF diff < minDiff
             THEN ClosestFrom(normLon, cusps, i + 1, diff, i + 1)
             ELSE ClosestFrom(normLon, cusps, i + 1, minDiff, closestHouse)

\* the fallback giving no house at all
findClosestHouseNone(normLon, cusps) == 0

findClosestHouse(normLon, cusps) == ClosestFrom(normLon, cusps, 0, Full, 1)

DetermineHouseForPlanet(planetLongitude, cusps) ==
    IF Len(cusps) # 12 THEN 1
    ELSE LET normLon == normalizeAngle360(planetLongitude)
             match == FirstMatch(normLon, cusps, 0)
         IN  IF match # 0 THEN match ELSE findClosestHouse(normLon, cusps)

getHouseForLongitude(longitude, cusps) ==
    IF Len(cusps) # 12 THEN 1
    ELSE LET normLon == normalizeAngle360(longitude)
             match == FirstMatch(normLon, cusps, 0)
         IN  IF match # 0 THEN match ELSE 1

\* AstrologyService.getHouseForPlanet: no length test, so fewer than 12
\* cusps end in an index-out-of-range panic, written 0
getHouseForPlanet(longitude, numericCusps) ==
    IF Len(numericCusps) < 12 THEN 0
    ELSE LET planetLonNorm == normalizeAngle(longitude)
             match == FirstMatch(planetLonNorm, numericCusps, 0)
         IN  IF match # 0 THEN match ELSE ClosestFrom(planetLonNorm, numericCusps, 0, Full, 1)

RECURSIVE SumUpTo(_, _)
SumUpTo(sizes, k) == IF k = 0 THEN 0 ELSE sizes[k] + SumUpTo(sizes, k - 1)

\* the cusps of houses of the given sizes (whole degrees), the first at start
CuspsFrom(start, sizes) ==
    [k \in 1..Len(sizes) |-> (Deg(start) + Deg(SumUpTo(sizes, k - 1))) % Full]

\* house sizes tried: equal houses, unequal houses with equal opposite
\* houses, and unequal houses of which one is empty
SampleHouseSizes ==
    { <<30, 30, 30, 30, 30, 30, 30, 30, 30, 30, 30, 30>>,
      <<20, 25, 45, 35, 30, 25, 20, 25, 45, 35, 30, 25>>,
      <<40, 0, 50, 30, 30, 30, 40, 0, 50, 30, 30, 30>> }

\* longitudes of the first cusp tried, in whole degrees
SampleFirstCusps == {0, 15, 100, 200, 350, 355}

\* cusp lists that are no 12 ascending cusps: all cusps at one point of the
\* circle (equal, or equal up to whole turns), descending cusps, cusps that
\* go back and forth, 11 cusps, none
DegenerateCusps ==
    { [k \in 1..12 |-> Deg(100)],
      [k \in 1..12 |-> IF k % 2 = 0 THEN Deg(460) ELSE Deg(100)],
      [k \in 1..12 |-> Deg(360 - 30 * k)],
      [k \in 1..12 |-> IF k % 2 = 0 THEN Deg(200) ELSE Deg(100)],
      CuspsFrom(350, <<30, 30, 30, 30, 30, 30, 30, 30, 30, 30, 30>>),
      <<>> }

\* longitudes placed: every whole degree, some outside [0, 360)
SamplePlanetLons == (0..359) \cup {-20, 365, 725}

InitHouse ==
    /\ pc = "house"
    /\ planetLon \in {Deg(d) : d \in SamplePlanetLons}
    /\ houseCusps \in {CuspsFrom(c, sz) : c \in SampleFirstCusps, sz \in SampleHouseSizes}
                        \cup DegenerateCusps
    /\ houseAstro = 0
    /\ houseChart = 0
    /\ houseService = 0
    /\ AdjIdle /\ PairIdle /\ AspIdle /\ AngIdle /\ CompIdle /\ CalcIdle /\ AnglesIdle /\ RenderIdle

CallDetermineHouseForPlanet ==
    /\ pc = "house"
    /\ houseAstro' = DetermineHouseForPlanet(planetLon, houseCusps)
    /\ pc' = "houseAstroDone"
    /\ UNCHANGED <<planetLon, houseCusps, houseChart, houseService, notHouse>>

CallGetHouseForLongitude ==
    /\ pc = "house"
    /\ houseChart' = getHouseForLongitude(planetLon, houseCusps)
    /\ pc' = "houseChartDone"
    /\ UNCHANGED <<planetLon, houseCusps, houseAstro, houseService, notHouse>>

CallGetHouseForPlanet ==
    /\ pc = "house"
    /\ houseService' = getHouseForPlanet(planetLon, houseCusps)
    /\ pc' = "houseServiceDone"
    /\ UNCHANGED <<planetLon, houseCusps, houseAstro, houseChart, notHouse>>

NextHouse ==
    \/ CallDetermineHouseForPlanet
    \/ CallGetHouseForLongitude
    \/ CallGetHouseForPlanet

SpecHouse == InitHouse /\ [][NextHouse]_vars


(***************************************************************************)
(* Composite planets: CompositeService.calculateMidpointPlanets and the    *)
(* planet loop of ChartDrawer.calculateCompositeChart.                     *)
(***************************************************************************)
\* domain.NewPlanet(name, midpointLon, 0, 0, 1), as far as the model follows
CompositePlanet(name, midpointLon) ==
    [Name |-> name, Longitude |-> midpointLon, Latitude |-> 0, Speed |-> 0, House |-> 1]

\* planetMap2[name] after the map is filled from planets2 in order: the last
\* planet of that name, and whether there is one (Go's two-value lookup,
\* the zero Planet when there is none)
LookupPlanet(ps, name) ==
    LET hits == {k \in DOMAIN ps : ps[k].Name = name}
    IN  IF hits = {}
        THEN [planet |-> [Name |-> "", Longitude |-> 0], exists |-> FALSE]
        ELSE [planet |-> ps[CHOOSE k \in hits : \A j \in hits : j <= k], exists |-> TRUE]

\* a lookup that reports every name as present
FoundAlways(ps, name) == TRUE

\* the second value of the lookup planetMap2[planet1.Name]
Found(ps, name) == LookupPlanet(ps, name).exists

RECURSIVE ServicePlanetsFrom(_, _, _)
ServicePlanetsFrom(ps1, ps2, k) ==
    IF k > Len(ps1) THEN <<>>
    ELSE LET planet1 == ps1[k]
             planet2 == LookupPlanet(ps2, planet1.Name).planet
             rest == ServicePlanetsFrom(ps1, ps2, k + 1)
         IN  IF Found(ps2, planet1.Name)
             THEN <<CompositePlanet(planet1.Name,
                        calculateMidpointService(planet1.Longitude, planet2.Longitude))>> \o rest
             ELSE rest

\* CompositeService.calculateMidpointPlanets
calculateMidpointPlanets(ps1, ps2) == ServicePlanetsFrom(ps1, ps2, 1)

RECURSIVE DrawerPlanetsFrom(_, _, _)
DrawerPlanetsFrom(ps1, ps2, k) ==
    IF k > Len(ps1) THEN <<>>
    ELSE LET planet1 == ps1[k]
             rest == DrawerPlanetsFrom(ps1, ps2, k + 1)
         IN  IF k <= Len(ps2) /\ planet1.Name = ps2[k].Name
             THEN <<CompositePlanet(planet1.Name,
                        calculateMidpoint(planet1.Longitude, ps2[k].Longitude))>> \o rest
             ELSE rest

\* the Planets of the chart ChartDrawer.calculateCompositeChart returns
calculateCompositeChartPlanets(ps1, ps2) == DrawerPlanetsFrom(ps1, ps2, 1)

\* body names tried
SampleNames == {"Sun", "Moon", "Mars", "Venus"}

\* longitudes of the bodies of chart 1
Chart1Lon(name) ==
    CASE name = "Sun" -> Deg(350)
      [] name = "Moon" -> Deg(10)
      [] name = "Mars" -> Deg(100)
      [] OTHER -> Deg(200)

\* longitudes a body of chart 2 is tried at
Chart2Lons == {Deg(10), Deg(200)}

\* lists of at most MaxPlanets planets, no name twice
NameLists ==
    UNION {{s \in [1..n -> SampleNames] : \A i, j \in 1..n : s[i] = s[j] => i = j} :
            n \in 0..MaxPlanets}

Charts1 ==
    {[k \in DOMAIN ns |-> [Name |-> ns[k], Longitude |-> Chart1Lon(ns[k])]] : ns \in NameLists}

Charts2 ==
    UNION {{[k \in DOMAIN ns |-> [Name |-> ns[k], Longitude |-> ls[k]]] :
                ls \in [DOMAIN ns -> Chart2Lons]} : ns \in NameLists}

InitComposite ==
    /\ pc = "composite"
    /\ planets1 \in Charts1
    /\ planets2 \in Charts2
    /\ compService = Nil
    /\ compDrawer = Nil
    /\ AdjIdle /\ PairIdle /\ AspIdle /\ AngIdle /\ HouseIdle /\ CalcIdle /\ AnglesIdle /\ RenderIdle

CallCalculateMidpointPlanets ==
    /\ pc = "composite"
    /\ compService' = calculateMidpointPlanets(planets1, planets2)
    /\ pc' = "compServiceDone"
    /\ UNCHANGED <<planets1, planets2, compDrawer, notComp>>

CallCalculateCompositeChart ==
    /\ pc = "composite"
    /\ compDrawer' = calculateCompositeChartPlanets(planets1, planets2)
    /\ pc' = "compDrawerDone"
    /\ UNCHANGED <<planets1, planets2, compService, notComp>>

NextComposite == CallCalculateMidpointPlanets \/ CallCalculateCompositeChart

SpecComposite == InitComposite /\ [][NextComposite]_vars

(***************************************************************************)
(* Chart angles: Chart.SetAngles, and the angles of the composite chart of *)
(* CompositeService.calculateComposite and of                              *)
(* ChartDrawer.calculateCompositeChart.  An angle is modelled by its Value.*)
(***************************************************************************)
\* SetAngles with IC and Descendant not turned by 180 degrees
SetAnglesNoTurn(ascendant, midheaven) ==
    [Ascendant |-> ascendant,
     Midheaven |-> midheaven,
     IC |-> normalizeAngle(midheaven),
     Descendant |-> normalizeAngle(ascendant)]

\* the Angles of a chart after SetAngles(ascendant, midheaven)
SetAngles(ascendant, midheaven) ==
    [Ascendant |-> ascendant,
     Midheaven |-> midheaven,
     IC |-> normalizeAngle(midheaven + Half),
     Descendant |-> normalizeAngle(ascendant + Half)]

\* Ascendant and Midheaven values of the source charts, in whole degrees
SampleChartAngles == {0, 10, 100, 190, 350}

\* arguments of a direct SetAngles call, some outside [0, 360)
SampleSetAngles == {-10, 0, 100, 185, 370, 725}

InitAngles ==
    /\ pc = "angles"
    /\ angles1 \in [Ascendant : {Deg(d) : d \in SampleChartAngles},
                    Midheaven : {Deg(d) : d \in SampleChartAngles}]
    /\ angles2 \in [Ascendant : {Deg(d) : d \in SampleChartAngles},
                    Midheaven : {Deg(d) : d \in SampleChartAngles}]
    /\ chartAngles = Nil
    /\ AdjIdle /\ PairIdle /\ AspIdle /\ AngIdle /\ HouseIdle /\ CompIdle /\ CalcIdle /\ RenderIdle

CallSetAngles ==
    /\ \E ascendant \in SampleSetAngles, midheaven \in SampleSetAngles :
          chartAngles' = SetAngles(Deg(ascendant), Deg(midheaven))
    /\ pc' = "anglesSet"
    /\ UNCHANGED <<angles1, angles2, notAngles>>

\* the angles part of CompositeService.calculateComposite
CallCalculateCompositeAngles ==
    /\ chartAngles' = SetAngles(calculateMidpointService(angles1.Ascendant, angles2.Ascendant),
                                calculateMidpointService(angles1.Midheaven, angles2.Midheaven))
    /\ pc' = "anglesService"
    /\ UNCHANGED <<angles1, angles2, notAngles>>

\* the angles part of ChartDrawer.calculateCompositeChart
CallCalculateCompositeChartAngles ==
    /\ chartAngles' = SetAngles(calculateMidpoint(angles1.Ascendant, angles2.Ascendant),
                                calculateMidpoint(angles1.Midheaven, angles2.Midheaven))
    /\ pc' = "anglesDrawer"
    /\ UNCHANGED <<angles1, angles2, notAngles>>

NextAngles ==
    \/ CallSetAngles
    \/ CallCalculateCompositeAngles
    \/ CallCalculateCompositeChartAngles

SpecAngles == InitAngles /\ [][NextAngles]_vars

(***************************************************************************)
(* AspectCalculator (astro/aspects.go): its configuration maps, the three  *)
(* configuration calls and the two calculations.                           *)
(***************************************************************************)
AspectTypes == {GetAspectDefinitions[k].Type : k \in DOMAIN GetAspectDefinitions}

getDefaultAspectOrbs ==
    [t \in AspectTypes |->
        Deg(CASE t = "conjunction" -> 8
              [] t = "opposition" -> 8
              [] t = "trine" -> 7
              [] t = "square" -> 6
              [] t = "sextile" -> 4
              [] t = "quincunx" -> 2
              [] OTHER -> 1)]

DefaultOrbPlanets ==
    {"Sun", "Moon", "Mercury", "Venus", "Mars", "Jupiter", "Saturn",
     "Uranus", "Neptune", "Pluto", "North Node", "Chiron"}

getDefaultPlanetOrbs ==
    [n \in DefaultOrbPlanets |->
        Deg(CASE n \in {"Sun", "Moon", "Jupiter", "Saturn"} -> 1
              [] n \in {"Uranus", "Neptune", "Pluto"} -> 2
              [] OTHER -> 0)]

getDefaultEnabledAspects ==
    [t \in AspectTypes |-> t \notin {"semisextile", "semisquare", "sesquisquare"}]

\* a read of a Go map: the zero value for a missing key
MapGet(map, key, zero) == IF key \in DOMAIN map THEN map[key] ELSE zero

GetDynamicOrb(planet1, planet2, aspectType) ==
    IF aspectType \notin DOMAIN aspectOrbs THEN 0
    ELSE aspectOrbs[aspectType] + MapGet(planetOrbs, planet1, 0) + MapGet(planetOrbs, planet2, 0)

IsAspectEnabled(aspectType) == MapGet(enabledAspects, aspectType, FALSE)

\* strength := 1.0 - aspect.Orb/maxOrb with maxOrb the dynamic orb, 0 for a
\* dynamic orb of 0, raised to 0 when negative; as the fraction Num/Den
\* with a positive Den
GetAspectStrength(a) ==
    LET maxOrb == GetDynamicOrb(a.Planet1, a.Planet2, a.Type)
        num == IF maxOrb > 0 THEN maxOrb - a.Orb ELSE a.Orb - maxOrb
        den == IF maxOrb > 0 THEN maxOrb ELSE 0 - maxOrb
    IN  IF maxOrb = 0 THEN [Num |-> 0, Den |-> 1]
        ELSE IF num < 0 THEN [Num |-> 0, Den |-> 1]
        ELSE [Num |-> num, Den |-> den]

CalcPlanet(name, lon, speed) == [Name |-> name, Longitude |-> Deg(lon), Speed |-> speed]

calculateAspectBetweenPlanets(planet1, planet2) ==
    NewAspect(planet1.Name, planet2.Name, planet1.Longitude, planet2.Longitude,
              planet1.Speed, planet2.Speed)

\* the append of a calculation's loop body: nil results are left out
AppendAspect(aspects, planet1, planet2) ==
    LET a == calculateAspectBetweenPlanets(planet1, planet2)
    IN  IF a = Nil THEN aspects ELSE Append(aspects, a)

\* the loops of CalculateAspects from indices (i, j) on, j > i
RECURSIVE CalculateAspectsFrom(_, _, _, _)
CalculateAspectsFrom(planets, i, j, aspects) ==
    IF i > Len(planets) THEN aspects
    ELSE IF j > Len(planets) THEN CalculateAspectsFrom(planets, i + 1, i + 2, aspects)
    ELSE CalculateAspectsFrom(planets, i, j + 1, AppendAspect(aspects, planets[i], planets[j]))

CalculateAspects(planets) == CalculateAspectsFrom(planets, 1, 2, <<>>)

\* the loops of CalculateAspectsBetweenCharts from indices (i, j) on
RECURSIVE CalculateBetweenFrom(_, _, _, _, _)
CalculateBetweenFrom(chart1Planets, chart2Planets, i, j, aspects) ==
    IF i > Len(chart1Planets) THEN aspects
    ELSE IF j > Len(chart2Planets)
         THEN CalculateBetweenFrom(chart1Planets, chart2Planets, i + 1, 1, aspects)
    ELSE CalculateBetweenFrom(chart1Planets, chart2Planets, i, j + 1,
                              AppendAspect(aspects, chart1Planets[i], chart2Planets[j]))

CalculateAspectsBetweenCharts(chart1Planets, chart2Planets) ==
    CalculateBetweenFrom(chart1Planets, chart2Planets, 1, 1, <<>>)

\* configuration calls the model follows on one calculator
MaxConfigCalls == 2

\* a first planet at 10 degrees and a second at exact and off-centre
\* separations of minor and major aspects, or at none; and three planets
SampleCalcPlanets ==
    {<<CalcPlanet("Sun", 10, Deg(1)), CalcPlanet("Mercury", d, 0)>> :
        d \in {40, 41, 55, 70, 100, 107, 130, 145}}
    \cup {<<CalcPlanet("Sun", 10, Deg(1)), CalcPlanet("Mercury", 40, 0),
            CalcPlanet("Uranus", 100, 0)>>}

\* the configuration calls are followed for two aspect types, two planets
\* and orbs that are zero, positive or negative
\* NewAspectCalculator()
InitCalc ==
    /\ pc = "calc"
    /\ aspectOrbs = getDefaultAspectOrbs
    /\ planetOrbs = getDefaultPlanetOrbs
    /\ enabledAspects = getDefaultEnabledAspects
    /\ calcPlanets \in SampleCalcPlanets
    /\ calcAspects = <<>>
    /\ calcStrengths = <<>>
    /\ configCalls = 0
    /\ AdjIdle /\ PairIdle /\ AspIdle /\ AngIdle /\ HouseIdle /\ CompIdle /\ AnglesIdle /\ RenderIdle

SetAspectOrb ==
    /\ configCalls < MaxConfigCalls
    /\ \E aspectType \in {"square", "semisextile"}, orb \in {0, Deg(3), -Deg(2)} :
          aspectOrbs' = [aspectOrbs EXCEPT ![aspectType] = orb]
    /\ configCalls' = configCalls + 1
    /\ pc' = "calcConfigured"
    /\ UNCHANGED <<planetOrbs, enabledAspects, calcPlanets, calcAspects, calcStrengths, notCalc>>

SetPlanetOrb ==
    /\ configCalls < MaxConfigCalls
    /\ \E planetName \in {"Sun", "Mercury"}, orb \in {0, Deg(2), -Deg(9)} :
          planetOrbs' = [planetOrbs EXCEPT ![planetName] = orb]
    /\ configCalls' = configCalls + 1
    /\ pc' = "calcConfigured"
    /\ UNCHANGED <<aspectOrbs, enabledAspects, calcPlanets, calcAspects, calcStrengths, notCalc>>

EnableAspect ==
    /\ configCalls < MaxConfigCalls
    /\ \E aspectType \in {"square", "semisextile"}, enabled \in BOOLEAN :
          enabledAspects' = [enabledAspects EXCEPT ![aspectType] = enabled]
    /\ configCalls' = configCalls + 1
    /\ pc' = "calcConfigured"
    /\ UNCHANGED <<aspectOrbs, planetOrbs, calcPlanets, calcAspects, calcStrengths, notCalc>>

CallCalculateAspects ==
    /\ pc \in {"calc", "calcConfigured", "calcBetweenDone"}
    /\ calcAspects' = CalculateAspects(calcPlanets)
    /\ pc' = "calcAspectsDone"
    /\ UNCHANGED <<aspectOrbs, planetOrbs, enabledAspects, calcPlanets, calcStrengths, configCalls, notCalc>>

\* the first planet as chart 1 against the remaining planets as chart 2
CallCalculateAspectsBetweenCharts ==
    /\ pc \in {"calc", "calcConfigured", "calcAspectsDone"}
    /\ calcAspects' = CalculateAspectsBetweenCharts(SubSeq(calcPlanets, 1, 1),
                                                     SubSeq(calcPlanets, 2, Len(calcPlanets)))
    /\ pc' = "calcBetweenDone"
    /\ UNCHANGED <<aspectOrbs, planetOrbs, enabledAspects, calcPlanets, calcStrengths, configCalls, notCalc>>

\* GetAspectStrength on every aspect the last calculation returned
CallGetAspectStrength ==
    /\ pc \in {"calcAspectsDone", "calcBetweenDone"}
    /\ calcStrengths' = [k \in DOMAIN calcAspects |-> GetAspectStrength(calcAspects[k])]
    /\ pc' = "calcStrengthDone"
    /\ UNCHANGED <<aspectOrbs, planetOrbs, enabledAspects, calcPlanets, calcAspects,
                   configCalls, notCalc>>

NextCalc ==
    \/ CallGetAspectStrength
    \/ SetAspectOrb
    \/ SetPlanetOrb
    \/ EnableAspect
    \/ CallCalculateAspects
    \/ CallCalculateAspectsBetweenCharts

SpecCalc == InitCalc /\ [][NextCalc]_vars

(***************************************************************************)
(* The renderer (pkg/chart): chart data from raw numeric data, aspect      *)
(* detection between aspectable bodies, and the layers of GenerateSVG that *)
(* carry bodies and aspect lines.  A wheel is modelled by the bodies it    *)
(* draws, an aspect layer by the aspects it draws a line for.              *)
(***************************************************************************)
PLANET_MEMBERS ==
    <<"sun", "moon", "mercury", "venus", "mars", "jupiter", "saturn",
      "uranus", "neptune", "pluto", "asc_node">>

ASPECT_MEMBERS ==
    << [Name |-> "conjunction", Value |-> 0],
       [Name |-> "opposition", Value |-> 180],
       [Name |-> "trine", Value |-> 120],
       [Name |-> "square", Value |-> 90],
       [Name |-> "sextile", Value |-> 60],
       [Name |-> "quincunx", Value |-> 150] >>

\* DefaultConfig(), as far as the model follows: DefaultOrb() and the body
\* names DefaultDisplay() switches on
DefaultConfig ==
    [Orb |-> [conjunction |-> 7, opposition |-> 6, trine |-> 6,
              square |-> 6, sextile |-> 5, quincunx |-> 0],
     Display |-> {"sun", "moon", "mercury", "venus", "mars", "jupiter", "saturn",
                  "uranus", "neptune", "pluto", "asc_node", "asc", "mc"}]

GetOrbForAspect(config, aspectName) ==
    IF aspectName \in DOMAIN config.Orb THEN config.Orb[aspectName] ELSE 0

\* strings.ToLower(strings.TrimSpace(name)) on the spellings the model uses
LowerTrimSpace(name) ==
    CASE name \in {"Sun", " SUN "} -> "sun"
      [] name = "Moon" -> "moon"
      [] name = "North Node" -> "north node"
      [] name = "Chiron" -> "chiron"
      [] name = "Lilith" -> "lilith"
      [] OTHER -> name

\* a normalization that takes every name it does not know for the Sun
normalizeBodyNameLenient(name) ==
    IF LowerTrimSpace(name) = "north node" THEN "asc_node"
    ELSE IF LowerTrimSpace(name) \in {"moon", "chiron"} THEN LowerTrimSpace(name)
    ELSE "sun"

\* every listed case but "north node" returns the lowered name, as the
\* default case does
normalizeBodyNameForRaw(name) ==
    IF LowerTrimSpace(name) = "north node" THEN "asc_node" ELSE LowerTrimSpace(name)

\* the search of PLANET_MEMBERS in convertRawDataToChartData: found or not
IsPlanetMember(normalizedName) ==
    \E k \in DOMAIN PLANET_MEMBERS :
        normalizeBodyNameForRaw(PLANET_MEMBERS[k]) = normalizedName

shouldDisplayBodyByName(name, display) == normalizeBodyNameForRaw(name) \in display

normalizeRelativeToAsc(degree, ascDegree) == normalizeAngle360(degree - ascDegree)

MovableBody(name, degree, house, ascDegree) ==
    [Name |-> name, Degree |-> degree, House |-> house,
     NormalizedDegree |-> normalizeRelativeToAsc(degree, ascDegree)]

\* angle := |body1.Degree - body2.Degree|, folded over 180
BodyAngle(body1, body2) ==
    LET angle == Abs(body1.Degree - body2.Degree)
    IN  IF angle > Half THEN Full - angle ELSE angle

\* the loop over ASPECT_MEMBERS from index k on: the first member with a
\* non-zero orb that the angle is within, or Nil
RECURSIVE FirstAspectFrom(_, _, _)
FirstAspectFrom(angle, config, k) ==
    IF k > Len(ASPECT_MEMBERS) THEN Nil
    ELSE LET orbValue == GetOrbForAspect(config, ASPECT_MEMBERS[k].Name)
             diff == Abs(angle - Deg(ASPECT_MEMBERS[k].Value))
         IN  IF orbValue # 0 /\ diff <= Deg(orbValue)
             THEN [AspectMember |-> ASPECT_MEMBERS[k], Orb |-> diff]
             ELSE FirstAspectFrom(angle, config, k + 1)

\* the index pairs of two nested range loops, in the loops' order
IndexPairs(n1, n2) ==
    [k \in 1..(n1 * n2) |-> <<((k - 1) \div n2) + 1, ((k - 1) % n2) + 1>>]

\* the loop body for the pairs from the k-th on.  Body1 and Body2 are the
\* addresses of the loop variables: with one variable per iteration they
\* point to the pair's bodies, with one variable per loop to whatever the
\* loops left in them, the last body of each slice
RECURSIVE AspectsOfPairs(_, _, _, _, _, _)
AspectsOfPairs(bodies1, bodies2, pairs, k, config, perIter) ==
    IF k > Len(pairs) THEN <<>>
    ELSE LET body1 == bodies1[pairs[k][1]]
             body2 == bodies2[pairs[k][2]]
             hit == FirstAspectFrom(BodyAngle(body1, body2), config, 1)
             rest == AspectsOfPairs(bodies1, bodies2, pairs, k + 1, config, perIter)
         IN  IF hit = Nil THEN rest
             ELSE << [Body1 |-> IF perIter THEN body1 ELSE bodies1[Len(bodies1)],
                      Body2 |-> IF perIter THEN body2 ELSE bodies2[Len(bodies2)],
                      AspectMember |-> hit.AspectMember,
                      Orb |-> hit.Orb] >> \o rest

calculateAspectsFromBodies(bodies, config, perIter) ==
    AspectsOfPairs(bodies, bodies,
                   SelectSeq(IndexPairs(Len(bodies), Len(bodies)), LAMBDA p : p[1] < p[2]),
                   1, config, perIter)

calculateCompositeAspects(bodies1, bodies2, config, perIter) ==
    AspectsOfPairs(bodies1, bodies2, IndexPairs(Len(bodies1), Len(bodies2)), 1, config, perIter)

\* the planet the loop over rawData.Planets appends for a raw planet it finds
RawPlanet(rawPlanet, raw) ==
    MovableBody(normalizeBodyNameForRaw(rawPlanet.Name), rawPlanet.Longitude,
                getHouseForLongitude(rawPlanet.Longitude, raw.HouseCusps), raw.Ascendant)

\* time.Format("2006-01-02 15:04:05") of a time in half seconds: the text
\* has whole seconds
FormatUTC(t) == t \div 2

convertRawDataToChartData(raw, config, perIter) ==
    LET vertices ==
            << MovableBody("asc", raw.Ascendant, 0, raw.Ascendant),
               MovableBody("ic", normalizeAngle360(raw.Midheaven + Half), 0, raw.Ascendant),
               MovableBody("dsc", normalizeAngle360(raw.Ascendant + Half), 0, raw.Ascendant),
               MovableBody("mc", raw.Midheaven, 0, raw.Ascendant) >>
        houses ==
            [i \in 1..12 |->
                MovableBody("house",
                            IF i <= Len(raw.HouseCusps) THEN raw.HouseCusps[i] ELSE 0,
                            0, raw.Ascendant)]
        known == SelectSeq(raw.Planets,
                           LAMBDA rp : IsPlanetMember(normalizeBodyNameForRaw(rp.Name)))
        planets == [i \in 1..Len(known) |-> RawPlanet(known[i], raw)]
        aspectables ==
            SelectSeq(planets, LAMBDA b : shouldDisplayBodyByName(b.Name, config.Display))
            \o SelectSeq(vertices, LAMBDA b : shouldDisplayBodyByName(b.Name, config.Display))
    IN  [UTCTime |-> FormatUTC(raw.UTCTime),
         Config |-> config, Vertices |-> vertices, Houses |-> houses, Planets |-> planets,
         Aspectables |-> aspectables,
         Aspects |-> calculateAspectsFromBodies(aspectables, config, perIter)]

\* the bodies a wheel draws, sorted by normalized degree
generateBodyWheel(data) ==
    SortSeq(data.Aspectables, LAMBDA a, b : a.NormalizedDegree < b.NormalizedDegree)

generateOuterBodyWheel(c) ==
    generateBodyWheel(IF c.Data2 = Nil THEN c.Data1 ELSE c.Data2)

generateInnerBodyWheel(c) ==
    IF c.Data2 = Nil THEN <<>> ELSE generateBodyWheel(c.Data1)

\* the aspects a line is drawn for
generateAspectLines(aspects, config) ==
    SelectSeq(aspects, LAMBDA a : GetOrbForAspect(config, a.AspectMember.Name) # 0)

\* the outer aspect layer drawn for two-chart renders as well
generateOuterAspectsAlways(c, perIter) == generateAspectLines(c.Data1.Aspects, c.Config)

generateOuterAspects(c, perIter) ==
    IF c.Data2 # Nil THEN <<>> ELSE generateAspectLines(c.Data1.Aspects, c.Config)

generateInnerAspects(c, perIter) ==
    IF c.Data2 = Nil THEN <<>>
    ELSE generateAspectLines(
            calculateCompositeAspects(c.Data1.Aspectables, c.Data2.Aspectables,
                                      c.Config, perIter),
            c.Config)

\* NewChart(data1, width, height, data2)
NewChart(data1, data2) == [Data1 |-> data1, Data2 |-> data2, Config |-> data1.Config]

\* a render that prints the chart's time text as one more layer
GenerateSVGStamped(c, perIter) ==
    [HouseWheel |-> [i \in DOMAIN c.Data1.Houses |-> c.Data1.Houses[i].NormalizedDegree],
     OuterBodyWheel |-> generateOuterBodyWheel(c),
     InnerBodyWheel |-> generateInnerBodyWheel(c),
     OuterAspects |-> generateOuterAspects(c, perIter),
     InnerAspects |-> <<c.Data1.UTCTime>>]

\* the layers of GenerateSVG: the house wheel of Data1, the two body wheels
\* and the two aspect layers
GenerateSVG(c, perIter) ==
    [HouseWheel |-> [i \in DOMAIN c.Data1.Houses |-> c.Data1.Houses[i].NormalizedDegree],
     OuterBodyWheel |-> generateOuterBodyWheel(c),
     InnerBodyWheel |-> generateInnerBodyWheel(c),
     OuterAspects |-> generateOuterAspects(c, perIter),
     InnerAspects |-> generateInnerAspects(c, perIter)]

\* returns (response, err): err only for a nil rawData
GenerateNatalChartSVGFromRawData(raw, perIter) ==
    IF raw = Nil THEN [SVG |-> Nil, Error |-> TRUE]
    ELSE [SVG |-> GenerateSVG(NewChart(convertRawDataToChartData(raw, DefaultConfig, perIter),
                                       Nil), perIter),
          Error |-> FALSE]

\* raw planets of a request: catalog bodies in several spellings, and names
\* the catalog does not have
SampleRawPlanets ==
    { [Name |-> "Sun", Longitude |-> Deg(10)],
      [Name |-> " SUN ", Longitude |-> Deg(10)],
      [Name |-> "Moon", Longitude |-> Deg(10)],
      [Name |-> "Moon", Longitude |-> Deg(100)],
      [Name |-> "North Node", Longitude |-> Deg(190)],
      [Name |-> "Chiron", Longitude |-> Deg(100)],
      [Name |-> "Lilith", Longitude |-> Deg(100)] }

\* the lists of up to n raw planets
RECURSIVE RawPlanetLists(_)
RawPlanetLists(n) ==
    IF n = 0 THEN {<<>>}
    ELSE RawPlanetLists(n - 1)
         \cup {Append(l, rp) : l \in {x \in RawPlanetLists(n - 1) : Len(x) = n - 1},
                               rp \in SampleRawPlanets}

\* 12 cusps, 11 cusps, 13 cusps and none
SampleRawCusps ==
    { CuspsFrom(20, <<30, 30, 30, 30, 30, 30, 30, 30, 30, 30, 30, 30>>),
      CuspsFrom(20, <<30, 30, 30, 30, 30, 30, 30, 30, 30, 30, 30>>),
      CuspsFrom(20, <<30, 30, 30, 30, 30, 30, 30, 30, 30, 30, 30, 30, 30>>),
      <<>> }

InitRaw ==
    /\ pc = "raw"
    /\ rawData \in {Nil} \cup
          {[Planets |-> l, HouseCusps |-> cusps, UTCTime |-> 10,
            Ascendant |-> Deg(20), Midheaven |-> Deg(290)] :
              l \in RawPlanetLists(MaxBodies), cusps \in SampleRawCusps}
    /\ perIteration \in BOOLEAN
    /\ rawResponse = Nil
    /\ svgChart1 = Nil /\ svgChart2 = Nil /\ svgResponse = Nil
    /\ DrawIdle /\ OrbIdle
    /\ AdjIdle /\ PairIdle /\ AspIdle /\ AngIdle /\ HouseIdle /\ CompIdle /\ CalcIdle /\ AnglesIdle

CallGenerateNatalChartSVGFromRawData ==
    /\ pc = "raw"
    /\ rawResponse' = GenerateNatalChartSVGFromRawData(rawData, perIteration)
    /\ pc' = "rawDone"
    /\ UNCHANGED <<rawData, svgChart1, svgChart2, svgResponse, perIteration, drawVars, orbVars, notRender>>

NextRaw == CallGenerateNatalChartSVGFromRawData

SpecRaw == InitRaw /\ [][NextRaw]_vars

(***************************************************************************)
(* The two-chart render: NewChartData for each chart and                   *)
(* GenerateCompositeChartSVG.  A chart is modelled by its planet positions *)
(* (name and sign) and its aspect list; it carries 12 house cusps.         *)
(***************************************************************************)
\* normalizeBodyName: only "North Node" is rewritten
normalizeBodyName(name) == IF name = "North Node" THEN "asc_node" ELSE name

\* the index of the lowered sign name in SIGN_MEMBERS (0 when not found),
\* times 30, plus the placeholder 15 degrees within the sign
parsePlanetPosition(signStr) ==
    Deg(30 * (CASE signStr \in {"Taurus", "taurus"} -> 1
                [] signStr \in {"Cancer", "cancer"} -> 3
                [] signStr \in {"Leo", "leo"} -> 4
                [] OTHER -> 0)
        + 15)

\* createVertices (parseDegreeDMS returns 0 for every cusp), createHouses,
\* createPlanets, setNormalizedDegrees, setAspectables and createAspects
NewChartData(response, config) ==
    LET ascDeg == 0
        mcDeg == 0
        body(name, degree, house) ==
            [Name |-> name, Degree |-> degree, House |-> house,
             NormalizedDegree |-> FMod(degree - ascDeg + Full, Full)]
        vertices ==
            << body("asc", ascDeg, 0), body("ic", FMod(mcDeg + Half, Full), 0),
               body("dsc", FMod(ascDeg + Half, Full), 0), body("mc", mcDeg, 0) >>
        houses == [i \in 1..12 |-> body("house", 0, 0)]
        known == SelectSeq(response.Planets,
                    LAMBDA pp : \E k \in DOMAIN PLANET_MEMBERS :
                        normalizeBodyName(PLANET_MEMBERS[k]) = normalizeBodyName(pp.Name))
        planets == [i \in 1..Len(known) |->
                        body(normalizeBodyName(known[i].Name),
                             parsePlanetPosition(known[i].Sign), known[i].House)]
        aspectables ==
            SelectSeq(planets, LAMBDA b : normalizeBodyName(b.Name) \in config.Display)
            \o SelectSeq(vertices, LAMBDA b : normalizeBodyName(b.Name) \in config.Display)
        \* the last aspectable of the name, 0 when there is none
        find(name) ==
            LET hits == {i \in DOMAIN aspectables :
                            normalizeBodyName(aspectables[i].Name) = normalizeBodyName(name)}
            IN  IF hits = {} THEN 0 ELSE CHOOSE i \in hits : \A j \in hits : j <= i
        member(type) ==
            {k \in DOMAIN ASPECT_MEMBERS : ASPECT_MEMBERS[k].Name = type}
        drawable == SelectSeq(response.Aspects,
                        LAMBDA ma : find(ma.Planet1) # 0 /\ find(ma.Planet2) # 0
                                    /\ member(ma.Type) # {})
        aspects == [i \in 1..Len(drawable) |->
                        [Body1 |-> aspectables[find(drawable[i].Planet1)],
                         Body2 |-> aspectables[find(drawable[i].Planet2)],
                         AspectMember |-> ASPECT_MEMBERS[CHOOSE k \in member(drawable[i].Type) : TRUE],
                         Orb |-> Deg(1)]]
    IN  [Config |-> config, Vertices |-> vertices, Houses |-> houses, Planets |-> planets,
         Aspectables |-> aspectables, Aspects |-> aspects]

\* returns (response, err): err when a chart is nil
GenerateCompositeChartSVG(chart1, chart2, perIter) ==
    IF chart1 = Nil \/ chart2 = Nil THEN [SVG |-> Nil, Error |-> TRUE]
    ELSE [SVG |-> GenerateSVG(NewChart(NewChartData(chart1, DefaultConfig),
                                       NewChartData(chart2, DefaultConfig)), perIter),
          Error |-> FALSE]

\* planet positions of a chart: catalog names, and "Sun", which createPlanets
\* does not match with "sun"
SamplePositions ==
    { [Name |-> "sun", Sign |-> "Aries", House |-> 1],
      [Name |-> "moon", Sign |-> "Aries", House |-> 1],
      [Name |-> "moon", Sign |-> "Cancer", House |-> 1],
      [Name |-> "Sun", Sign |-> "Aries", House |-> 1] }

\* nil, and the charts of up to n planet positions, each with the aspect list
\* of a natal chart that has the Sun and the Moon in square
RECURSIVE PositionLists(_)
PositionLists(n) ==
    IF n = 0 THEN {<<>>}
    ELSE PositionLists(n - 1)
         \cup {Append(l, pp) : l \in {x \in PositionLists(n - 1) : Len(x) = n - 1},
                               pp \in SamplePositions}

SampleCharts ==
    {Nil} \cup
    {[Planets |-> l,
      Aspects |-> <<[Planet1 |-> "sun", Planet2 |-> "moon", Type |-> "square"]>>] :
        l \in PositionLists(MaxPlanets)}

InitSvg ==
    /\ pc = "svg"
    /\ svgChart1 \in SampleCharts
    /\ svgChart2 \in SampleCharts
    /\ perIteration \in BOOLEAN
    /\ svgResponse = Nil
    /\ rawData = Nil /\ rawResponse = Nil
    /\ DrawIdle /\ OrbIdle
    /\ AdjIdle /\ PairIdle /\ AspIdle /\ AngIdle /\ HouseIdle /\ CompIdle /\ CalcIdle /\ AnglesIdle

CallGenerateCompositeChartSVG ==
    /\ pc = "svg"
    /\ svgResponse' = GenerateCompositeChartSVG(svgChart1, svgChart2, perIteration)
    /\ pc' = "svgDone"
    /\ UNCHANGED <<rawData, rawResponse, svgChart1, svgChart2, perIteration, drawVars, orbVars, notRender>>

NextSvg == CallGenerateCompositeChartSVG

SpecSvg == InitSvg /\ [][NextSvg]_vars

(***************************************************************************)
(* ChartDrawer.GenerateNatalChart, called twice on the same chart while    *)
(* the clock runs: convertToRawChartData, then the raw render.             *)
(***************************************************************************)
MaxClock == 3

\* the raw data of a domain chart; a zero UTCTime (0) is replaced by the
\* current time
convertToRawChartData(chart, now) ==
    [Planets |-> [i \in 1..Len(chart.Planets) |->
                     [Name |-> chart.Planets[i].Name,
                      Longitude |-> chart.Planets[i].Longitude]],
     HouseCusps |-> chart.HouseCusps,
     UTCTime |-> IF chart.UTCTime = 0 THEN now ELSE chart.UTCTime,
     Ascendant |-> chart.Ascendant,
     Midheaven |-> chart.Midheaven]

\* returns response.SVG; Raw is the intermediate raw data of the call
GenerateNatalChart(natalChart, now, perIter) ==
    LET raw == convertToRawChartData(natalChart, now)
        response == GenerateNatalChartSVGFromRawData(raw, perIter)
    IN  [Raw |-> raw, SVG |-> IF response.Error THEN Nil ELSE response.SVG]

InitDraw ==
    /\ pc = "draw"
    /\ clock = 1
    /\ domainChart \in
          {[Planets |-> l, HouseCusps |-> CuspsFrom(20, <<30, 30, 30, 30, 30, 30, 30, 30, 30, 30, 30, 30>>),
            UTCTime |-> u, Ascendant |-> Deg(20), Midheaven |-> Deg(290)] :
              l \in RawPlanetLists(MaxPlanets), u \in {0, 10}}
    /\ perIteration \in BOOLEAN
    /\ drawn1 = Nil /\ drawn2 = Nil
    /\ OrbIdle
    /\ rawData = Nil /\ rawResponse = Nil
    /\ svgChart1 = Nil /\ svgChart2 = Nil /\ svgResponse = Nil
    /\ AdjIdle /\ PairIdle /\ AspIdle /\ AngIdle /\ HouseIdle /\ CompIdle /\ CalcIdle /\ AnglesIdle

\* time passes before, between and after the two calls
ClockTick ==
    /\ pc \in {"draw", "drawnOnce"}
    /\ clock < MaxClock
    /\ clock' = clock + 1
    /\ UNCHANGED <<pc, domainChart, drawn1, drawn2, rawData, rawResponse, svgChart1, svgChart2,
                   svgResponse, perIteration, orbVars, notRender>>

CallGenerateNatalChart ==
    /\ pc = "draw"
    /\ drawn1' = GenerateNatalChart(domainChart, clock, perIteration)
    /\ pc' = "drawnOnce"
    /\ UNCHANGED <<clock, domainChart, drawn2, rawData, rawResponse, svgChart1, svgChart2,
                   svgResponse, perIteration, orbVars, notRender>>

CallGenerateNatalChartAgain ==
    /\ pc = "drawnOnce"
    /\ drawn2' = GenerateNatalChart(domainChart, clock, perIteration)
    /\ pc' = "drawnTwice"
    /\ UNCHANGED <<clock, domainChart, drawn1, rawData, rawResponse, svgChart1, svgChart2,
                   svgResponse, perIteration, orbVars, notRender>>

NextDraw ==
    \/ ClockTick
    \/ CallGenerateNatalChart
    \/ CallGenerateNatalChartAgain

SpecDraw == InitDraw /\ [][NextDraw]_vars
(***************************************************************************)
(* The renderer's aspect detection under any orb configuration:            *)
(* calculateAspectsFromBodies on two bodies of one chart and               *)
(* calculateCompositeAspects on one body of each of two charts.            *)
(***************************************************************************)
\* Config.Orb: one integer per aspect type, 0 switches the type off
OrbConfigs ==
    {[Orb |-> o, Display |-> DefaultConfig.Display] :
        o \in [{"conjunction", "opposition", "trine", "square", "sextile", "quincunx"}
                 -> {0, 6, 20}]}

InitOrb ==
    /\ pc = "orb"
    /\ orbConfig \in OrbConfigs
    /\ orbBodies \in
          {<<MovableBody("sun", Deg(d1), 0, 0), MovableBody("moon", Deg(d2), 0, 0)>> :
              d1 \in {0, 350}, d2 \in {0, 5, 75, 100, 105, 135, 150, 165, 180, 200, 355}}
    /\ orbAspects = <<>>
    /\ perIteration \in BOOLEAN
    /\ DrawIdle
    /\ rawData = Nil /\ rawResponse = Nil
    /\ svgChart1 = Nil /\ svgChart2 = Nil /\ svgResponse = Nil
    /\ AdjIdle /\ PairIdle /\ AspIdle /\ AngIdle /\ HouseIdle /\ CompIdle /\ CalcIdle /\ AnglesIdle

CallCalculateAspectsFromBodies ==
    /\ pc = "orb"
    /\ orbAspects' = calculateAspectsFromBodies(orbBodies, orbConfig, perIteration)
    /\ pc' = "orbDone"
    /\ UNCHANGED <<orbConfig, orbBodies, rawData, rawResponse, svgChart1, svgChart2,
                   svgResponse, perIteration, drawVars, notRender>>

CallCalculateCompositeAspects ==
    /\ pc = "orb"
    /\ orbAspects' = calculateCompositeAspects(<<orbBodies[1]>>, <<orbBodies[2]>>,
                                               orbConfig, perIteration)
    /\ pc' = "orbCompositeDone"
    /\ UNCHANGED <<orbConfig, orbBodies, rawData, rawResponse, svgChart1, svgChart2,
                   svgResponse, perIteration, drawVars, notRender>>

NextOrb ==
    \/ CallCalculateAspectsFromBodies
    \/ CallCalculateCompositeAspects

SpecOrb == InitOrb /\ [][NextOrb]_vars

(***************************************************************************)
(* Claims about the anti-overlap placement.                                *)
(***************************************************************************)
\* shortest distance on the circle between two positions, normalized or not
CircDist(x, y) == LET d == (x - y) % Full IN Min(d, Full - d)

\* the arc from x forward (ascending) to y, in [0, Full)
ForwardArc(x, y) == (y - x) % Full

\* index after k, cyclically, in a list of n
Succ(k, n) == IF k = n THEN 1 ELSE k + 1

RECURSIVE SumForwardArcs(_, _)
SumForwardArcs(s, k) ==
    IF k = 0 THEN 0
    ELSE ForwardArc(s[k], s[Succ(k, Len(s))]) + SumForwardArcs(s, k - 1)

\* read by index, the positions go once around the circle at most
SameCircularOrder(s) == SumForwardArcs(s, Len(s)) <= Full

\* the precondition of the placement contract: n >= 2 and n * step <= 360
AdjPre == Len(degrees) >= 2 /\ Len(degrees) * Step(minDegree) <= Full

\* C1: for an ascending list of n >= 2 positions with n*(minSep+0.1) <= 360,
\* every index-adjacent pair of returned positions, the pair (last, first)
\* included, is at least minSep apart on the circle.
C1_MinSeparation ==
    (pc = "done" /\ AdjPre) =>
        \A k \in 1..Len(avgAdj) :
            CircDist(avgAdj[k], avgAdj[Succ(k, Len(avgAdj))]) >= Deg(minDegree)

\* C2: the returned positions, read by index around the circle, are in the
\* same circular order as the ascending input.
C2_NoReordering ==
    pc = "done" => SameCircularOrder(avgAdj)

(***************************************************************************)
(* Claims about the angle utilities.                                       *)
(***************************************************************************)
\* C7: AngularDistance(a, b) equals AngularDistance(b, a) and lies in
\* [0, 180], for all longitudes a and b.
C7_DistanceSymmetricBounded ==
    pc = "distanceDone" =>
        /\ distance = AngularDistance(lon2, lon1)
        /\ 0 <= distance
        /\ distance <= Half

\* the distance is taken across the 0/360 seam
C7_Witness ==
    /\ pc = "distanceDone"
    /\ lon1 = Deg(350)
    /\ lon2 = Deg(10)
    /\ distance = Deg(20)

\* m is the midpoint of the shorter arc between a and b
IsShorterArcMidpoint(m, a, b) ==
    /\ 0 <= m
    /\ m < Full
    /\ 2 * AngularDistance(m, a) = AngularDistance(a, b)
    /\ AngularDistance(m, a) = AngularDistance(m, b)
    /\ CircDist(a, m) + CircDist(m, b) = CircDist(a, b)

\* C8: for longitudes a and b less than 180 degrees apart, both
\* calculateMidpoint methods return m in [0, 360) on the shorter arc between
\* a and b, at half their angular distance from each; calculateMidpoint(350,
\* 10) is 0.
C8_MidpointOnShorterArc ==
    (pc = "midpointDone" /\ AngularDistance(lon1, lon2) < Half) =>
        /\ IsShorterArcMidpoint(midDrawer, lon1, lon2)
        /\ IsShorterArcMidpoint(midService, lon1, lon2)
        /\ (lon1 = Deg(350) /\ lon2 = Deg(10)) => (midDrawer = 0 /\ midService = 0)

C8_Witness ==
    /\ pc = "midpointDone"
    /\ lon1 = Deg(350)
    /\ lon2 = Deg(10)
    /\ midDrawer = 0
    /\ midService = 0

(***************************************************************************)
(* Claims about the aspect engine.                                         *)
(***************************************************************************)
\* the catalog entries whose base orb admits the given angular distance
Qualifying(angle) ==
    {k \in DOMAIN GetAspectDefinitions :
        Abs(angle - GetAspectDefinitions[k].Angle) <= GetAspectDefinitions[k].BaseOrb}

\* C3: NewAspect returns no aspect when no catalog definition has
\* |angular distance - definition angle| <= its base orb, and otherwise the
\* aspect of the qualifying definition with the smallest deviation, with
\* that deviation as its orb.
C3_BestQualifyingAspect ==
    pc = "aspectDone" =>
        LET angle == CircDist(lon1, lon2)
            Dev(k) == Abs(angle - GetAspectDefinitions[k].Angle)
        IN  IF Qualifying(angle) = {}
            THEN aspect = Nil
            ELSE /\ aspect # Nil
                 /\ \E k \in Qualifying(angle) :
                        /\ aspect.Type = GetAspectDefinitions[k].Type
                        /\ aspect.Orb = Dev(k)
                        /\ \A j \in Qualifying(angle) : Dev(k) <= Dev(j)

\* a square found at the very edge of its base orb
C3_Witness ==
    /\ pc = "aspectDone"
    /\ lon1 = Deg(10)
    /\ lon2 = Deg(106)
    /\ aspect # Nil
    /\ aspect.Type = "square"
    /\ aspect.Orb = Deg(6)

\* what the symmetry claims compare of an aspect
AspectView(a) ==
    IF a = Nil THEN Nil
    ELSE [Type |-> a.Type, Orb |-> a.Orb, Strength |-> a.Strength, IsExact |-> a.IsExact]

\* C9: NewAspect for (body1, body2) and for (body2, body1) are both nil or
\* both non-nil, and then agree on type, orb, strength and isExact.
C9_AspectSymmetric ==
    pc = "aspectDone" =>
        AspectView(aspect) = AspectView(NewAspect("p2", "p1", lon2, lon1, speed2, speed1))

C9_Witness ==
    /\ pc = "aspectDone"
    /\ lon1 = Deg(10)
    /\ lon2 = Deg(130)
    /\ speed1 = Deg(1)
    /\ speed2 = -Deg(1)
    /\ aspect # Nil
    /\ aspect.Type = "trine"

\* C10: for d in [0, 180] the pair (a, a + 180 + d) is classified as the
\* pair (a, a + 180 - d) is: same type, orb, strength and isExact, or no
\* aspect for both.
C10_SeamReflection ==
    pc = "aspectDone" =>
        LET d == lon2 - lon1 - Half
        IN  (0 <= d /\ d <= Half) =>
                AspectView(aspect) =
                    AspectView(NewAspect("p1", "p2", lon1, lon1 + Half - d, speed1, speed2))

\* a raw separation of 181 degrees: an opposition of orb 1, as 179 is
C10_Witness ==
    /\ pc = "aspectDone"
    /\ lon1 = Deg(100)
    /\ lon2 = Deg(281)
    /\ aspect # Nil
    /\ aspect.Type = "opposition"
    /\ aspect.Orb = Deg(1)

(***************************************************************************)
(* Claims about house assignment.                                          *)
(***************************************************************************)
\* 12 cusps that go once around the circle in ascending order
CircularAscending(cusps) ==
    Len(cusps) = 12 /\ SumForwardArcs(cusps, 12) = Full

\* the longitude lies in the half-open span from cusp h to the next cusp
InSpan(lon, cusps, h) ==
    LET x == lon % Full
        cur == cusps[h] % Full
        nxt == cusps[Succ(h, 12)] % Full
    IN  IF nxt < cur THEN x >= cur \/ x < nxt ELSE cur <= x /\ x < nxt

\* h is the one house whose span contains the longitude
IsTheHouseOf(h, lon, cusps) ==
    /\ h \in 1..12
    /\ InSpan(lon, cusps, h)
    /\ \A j \in 1..12 : InSpan(lon, cusps, j) => j = h

\* C4: given 12 cusps in circular ascending order, both house functions
\* return the number of the unique house whose half-open span [cusp[i],
\* cusp[i+1 mod 12]) contains the longitude; with cusps 350, 20, ...
\* longitude 5 is in house 1 and longitude 340 in house 12.
C4_HouseOfLongitude ==
    /\ (pc = "houseAstroDone" /\ CircularAscending(houseCusps)) =>
            IsTheHouseOf(houseAstro, planetLon, houseCusps)
    /\ (pc = "houseChartDone" /\ CircularAscending(houseCusps)) =>
            IsTheHouseOf(houseChart, planetLon, houseCusps)
    /\ (Len(houseCusps) = 12 /\ houseCusps[1] = Deg(350) /\ houseCusps[2] = Deg(20)) =>
            /\ (pc = "houseAstroDone" /\ planetLon = Deg(5)) => houseAstro = 1
            /\ (pc = "houseChartDone" /\ planetLon = Deg(5)) => houseChart = 1
            /\ (pc = "houseAstroDone" /\ planetLon = Deg(340)) => houseAstro = 12
            /\ (pc = "houseChartDone" /\ planetLon = Deg(340)) => houseChart = 12

\* longitude 340 just before the first cusp 350: the last house, which
\* does not cross the seam, while house 1 does
C4_Witness ==
    /\ pc = "houseAstroDone"
    /\ Len(houseCusps) = 12
    /\ houseCusps[1] = Deg(350)
    /\ houseCusps[2] = Deg(20)
    /\ planetLon = Deg(340)
    /\ houseAstro = 12

(***************************************************************************)
(* Claims about the composite calculators.                                 *)
(***************************************************************************)
NamesOf(ps) == {ps[k].Name : k \in DOMAIN ps}

\* every planet of the composite bears a name both source charts have
OnlySharedNames(composite) ==
    \A k \in DOMAIN composite :
        composite[k].Name \in NamesOf(planets1) \cap NamesOf(planets2)

\* C5: a body whose name is in only one of the two source charts never
\* appears in the composite, for both composite calculations.
C5_SingletonsDropped ==
    /\ pc = "compServiceDone" => OnlySharedNames(compService)
    /\ pc = "compDrawerDone" => OnlySharedNames(compDrawer)

\* chart 1 has a body that chart 2 lacks, and the composite is not empty
C5_Witness ==
    /\ pc = "compServiceDone"
    /\ NamesOf(planets1) \ NamesOf(planets2) # {}
    /\ Len(compService) = 1

\* every shared name is in the composite once, at the midpoint of its two
\* source longitudes
SharedNamesAtMidpoint(composite) ==
    \A name \in NamesOf(planets1) \cap NamesOf(planets2) :
        LET hits == {k \in DOMAIN composite : composite[k].Name = name}
            l1 == LookupPlanet(planets1, name).planet.Longitude
            l2 == LookupPlanet(planets2, name).planet.Longitude
        IN  /\ Cardinality(hits) = 1
            /\ \A k \in hits : IsShorterArcMidpoint(composite[k].Longitude, l1, l2)

\* C6: every body name present in both source charts appears exactly once
\* in the composite, at the arc midpoint of its two source longitudes,
\* whatever the order or index at which either chart lists its bodies; for
\* both composite calculations.
C6_MatchedByName ==
    /\ pc = "compServiceDone" => SharedNamesAtMidpoint(compService)
    /\ pc = "compDrawerDone" => SharedNamesAtMidpoint(compDrawer)

\* the catalog entry of an aspect type
DefinitionOf(type) ==
    GetAspectDefinitions[CHOOSE k \in DOMAIN GetAspectDefinitions :
                            GetAspectDefinitions[k].Type = type]

\* C11: every aspect NewAspect returns has strength max(0, 1 - orb/baseOrb)
\* of its winning definition, a value in [0, 1]; longitudes 10 and 130 give
\* a trine of orb 0 and strength 1 that is exact.
C11_StrengthFromOrb ==
    (pc = "aspectDone" /\ aspect # Nil) =>
        LET baseOrb == DefinitionOf(aspect.Type).BaseOrb
            rest == IF baseOrb - aspect.Orb < 0 THEN 0 ELSE baseOrb - aspect.Orb
        IN  /\ aspect.Strength.Den > 0
            /\ aspect.Strength.Num * baseOrb = rest * aspect.Strength.Den
            /\ 0 <= aspect.Strength.Num
            /\ aspect.Strength.Num <= aspect.Strength.Den
            /\ (lon1 = Deg(10) /\ lon2 = Deg(130)) =>
                    /\ aspect.Type = "trine"
                    /\ aspect.Orb = 0
                    /\ aspect.Strength.Num = aspect.Strength.Den
                    /\ aspect.IsExact

C11_Witness ==
    /\ pc = "aspectDone"
    /\ lon1 = Deg(10)
    /\ lon2 = Deg(130)
    /\ aspect # Nil
    /\ aspect.Type = "trine"
    /\ aspect.Orb = 0
    /\ aspect.Strength = [Num |-> Deg(7), Den |-> Deg(7)]
    /\ aspect.IsExact

\* the aspect is a square of orb 1 and strength 5/6
IsSquareOfOrbOne(a) ==
    /\ a # Nil
    /\ a.Type = "square"
    /\ a.Orb = Deg(1)
    /\ 6 * a.Strength.Num = 5 * a.Strength.Den

\* C12 as claimed: two longitudes 91 degrees apart are a square of orb 1,
\* strength 5/6 and isExact = true.
C12_Square91Exact ==
    (pc = "aspectDone" /\ CircDist(lon1, lon2) = Deg(91)) =>
        IsSquareOfOrbOne(aspect) /\ aspect.IsExact

\* C12 as amended: two longitudes 91 degrees apart are a square of orb 1 and
\* strength 5/6 that is not exact, isExact being orb < 1.0.
C12_Square91NotExact ==
    (pc = "aspectDone" /\ CircDist(lon1, lon2) = Deg(91)) =>
        IsSquareOfOrbOne(aspect) /\ ~aspect.IsExact

C12_Witness ==
    /\ pc = "aspectDone"
    /\ lon1 = Deg(10)
    /\ lon2 = Deg(101)
    /\ IsSquareOfOrbOne(aspect)
    /\ ~aspect.IsExact

\* C13: an aspect is applying exactly when the angular distance of the
\* longitudes moved on by their speeds is strictly closer to the exact
\* angle than the angular distance now; with both speeds zero it is
\* separating.
C13_ApplyingIffCloser ==
    (pc = "aspectDone" /\ aspect # Nil) =>
        LET exact == DefinitionOf(aspect.Type).Angle
            now == Abs(CircDist(lon1, lon2) - exact)
            future == Abs(CircDist(lon1 + speed1, lon2 + speed2) - exact)
        IN  /\ aspect.IsApplying <=> (future < now)
            /\ (speed1 = 0 /\ speed2 = 0) => ~aspect.IsApplying

\* a square one degree wide of exact that the first body closes in a day
C13_Witness ==
    /\ pc = "aspectDone"
    /\ lon1 = Deg(10)
    /\ lon2 = Deg(99)
    /\ speed1 = -Deg(1)
    /\ speed2 = 0
    /\ aspect # Nil
    /\ aspect.Type = "square"
    /\ aspect.IsApplying

(***************************************************************************)
(* C14: after any sequence of SetAspectOrb, SetPlanetOrb and EnableAspect  *)
(* calls, a calculation returns an aspect of type t for a pair only if t   *)
(* is enabled and the pair's deviation from t's exact angle is at most     *)
(* GetDynamicOrb for the pair and t; with the default configuration no     *)
(* semisextile, semisquare or sesquisquare is returned.                    *)
(***************************************************************************)
CalcReturned == pc \in {"calcAspectsDone", "calcBetweenDone"}

PlanetNamed(planets, name) ==
    planets[CHOOSE k \in DOMAIN planets : planets[k].Name = name]

\* the deviation of the aspect's pair from the exact angle of its type
PairDeviation(a) ==
    DefOrb(AngularDistance(PlanetNamed(calcPlanets, a.Planet1).Longitude,
                           PlanetNamed(calcPlanets, a.Planet2).Longitude),
           DefinitionOf(a.Type))

DefaultConfiguration ==
    /\ aspectOrbs = getDefaultAspectOrbs
    /\ planetOrbs = getDefaultPlanetOrbs
    /\ enabledAspects = getDefaultEnabledAspects

C14_EnabledWithinDynamicOrb ==
    CalcReturned =>
        /\ \A k \in DOMAIN calcAspects :
              /\ IsAspectEnabled(calcAspects[k].Type)
              /\ PairDeviation(calcAspects[k])
                    <= GetDynamicOrb(calcAspects[k].Planet1, calcAspects[k].Planet2,
                                     calcAspects[k].Type)
        /\ DefaultConfiguration =>
              \A k \in DOMAIN calcAspects :
                  calcAspects[k].Type \notin {"semisextile", "semisquare", "sesquisquare"}

(***************************************************************************)
(* C15: when 12 cusps are supplied and the boundary rule matches no house  *)
(* for a longitude, house assignment does not fail: it returns a house     *)
(* number, and that house's cusp is nearest to the longitude by circular   *)
(* distance.                                                               *)
(***************************************************************************)
NoBoundaryMatch ==
    Len(houseCusps) = 12 /\ \A h \in 1..12 : ~InSpan(planetLon, houseCusps, h)

IsNearestHouse(h) ==
    /\ h \in 1..12
    /\ \A k \in 1..12 :
          CircDist(planetLon, houseCusps[h]) <= CircDist(planetLon, houseCusps[k])

C15_FallbackNearestCusp ==
    /\ (pc = "houseAstroDone" /\ NoBoundaryMatch) => IsNearestHouse(houseAstro)
    /\ (pc = "houseChartDone" /\ NoBoundaryMatch) => IsNearestHouse(houseChart)

\* all cusps at 100 or 460 degrees, the longitude a quarter turn away
C15_Witness ==
    /\ pc = "houseAstroDone"
    /\ NoBoundaryMatch
    /\ houseCusps[2] = Deg(460)
    /\ planetLon = Deg(190)
    /\ houseAstro = 1

(***************************************************************************)
(* Claims about the render from raw data.                                  *)
(***************************************************************************)
\* C16: a render request whose chart does not carry exactly 12 house cusps
\* fails with an error before any output is produced: no SVG is returned.
C16_WrongCuspCountFails ==
    (pc = "rawDone" /\ rawData # Nil /\ Len(rawData.HouseCusps) # 12) =>
        rawResponse.Error /\ rawResponse.SVG = Nil

\* the spellings among the sampled names that name a body of PLANET_MEMBERS
KnownRawNames == {"Sun", " SUN ", "Moon", "North Node"}

\* the request with the raw planets of unknown name taken out
WithoutUnknown(raw) ==
    [raw EXCEPT !.Planets = SelectSeq(@, LAMBDA rp : rp.Name \in KnownRawNames)]

\* C17: a body whose name matches no body of the catalog is skipped without
\* an error: the wheel has a symbol for each known planet and for ASC and MC
\* only, and the whole output equals the output for the same request without
\* the unknown bodies.
C17_UnknownBodySkipped ==
    (pc = "rawDone" /\ rawData # Nil) =>
        /\ ~rawResponse.Error
        /\ Len(rawResponse.SVG.OuterBodyWheel) = Len(WithoutUnknown(rawData).Planets) + 2
        /\ \A k \in DOMAIN rawResponse.SVG.OuterAspects :
              {rawResponse.SVG.OuterAspects[k].Body1.Name,
               rawResponse.SVG.OuterAspects[k].Body2.Name}
                 \subseteq {"sun", "moon", "asc_node", "asc", "mc"}
        /\ rawResponse = GenerateNatalChartSVGFromRawData(WithoutUnknown(rawData), perIteration)

\* an unknown body between two catalog bodies that are in square
C17_Witness ==
    /\ pc = "rawDone"
    /\ rawData # Nil
    /\ Len(rawData.Planets) = 3
    /\ rawData.Planets[1] = [Name |-> "Sun", Longitude |-> Deg(10)]
    /\ rawData.Planets[2] = [Name |-> "Lilith", Longitude |-> Deg(100)]
    /\ rawData.Planets[3] = [Name |-> "Moon", Longitude |-> Deg(100)]
    /\ perIteration
    /\ Len(rawResponse.SVG.OuterBodyWheel) = 4
    /\ \E k \in DOMAIN rawResponse.SVG.OuterAspects :
          /\ rawResponse.SVG.OuterAspects[k].Body1.Name = "sun"
          /\ rawResponse.SVG.OuterAspects[k].Body2.Name = "moon"

(***************************************************************************)
(* C18: in every composite chart, and after any SetAngles call on a chart, *)
(* the Descendant is exactly 180 degrees from the Ascendant and the IC     *)
(* exactly 180 degrees from the Midheaven: both are the stored Ascendant   *)
(* and Midheaven turned by half a circle.                                  *)
(***************************************************************************)
C18_OppositeAngles ==
    chartAngles # Nil =>
        /\ CircDist(chartAngles.Descendant, chartAngles.Ascendant) = Half
        /\ CircDist(chartAngles.IC, chartAngles.Midheaven) = Half
        /\ chartAngles.Descendant = (chartAngles.Ascendant + Half) % Full
        /\ chartAngles.IC = (chartAngles.Midheaven + Half) % Full

\* Ascendants 350 and 10: the composite Ascendant is 0, the Descendant 180,
\* where the midpoint of the two Descendants 170 and 190 is, too
C18_Witness ==
    /\ pc = "anglesService"
    /\ angles1.Ascendant = Deg(350)
    /\ angles2.Ascendant = Deg(10)
    /\ angles1.Midheaven = Deg(100)
    /\ angles2.Midheaven = Deg(190)
    /\ chartAngles.Ascendant = 0
    /\ chartAngles.Descendant = Half
    /\ chartAngles.Midheaven = Deg(145)
    /\ chartAngles.IC = Deg(325)

(***************************************************************************)
(* Claims about the two-chart render.                                      *)
(***************************************************************************)
SeqRange(seq) == {seq[k] : k \in DOMAIN seq}

\* the bodies of a chart of the request that can be drawn
BodiesOf(chart) == SeqRange(NewChartData(chart, DefaultConfig).Aspectables)

TwoChartRendered == pc = "svgDone" /\ ~svgResponse.Error

C20_OuterWheelIsChart1 ==
    TwoChartRendered =>
        /\ SeqRange(svgResponse.SVG.OuterBodyWheel) = BodiesOf(svgChart1)
        /\ SeqRange(svgResponse.SVG.InnerBodyWheel) = BodiesOf(svgChart2)


(***************************************************************************)
(* C21: a body ring with one body                                          *)
(***************************************************************************)
\* C21: the placement of a body ring that holds exactly one body terminates,
\* and the position it returns for that body is the body's own position
C21_SingleBodyPlaced == (Len(degrees) = 1) ~> (pc = "done" /\ avgAdj = degrees)

C21_Witness == pc = "done" /\ Len(degrees) = 1 /\ avgAdj = degrees /\ fwdPasses = 0

(***************************************************************************)
(* C22: two renders of the same chart                                      *)
(***************************************************************************)
\* C22: two renders of the same chart data with the same configuration give
\* the same SVG, whenever each of them runs and whatever was rendered before
C22_RenderDeterministic ==
    pc = "drawnTwice" => drawn1.SVG = drawn2.SVG

\* the chart had no time of its own and the two renders ran in different
\* seconds, so their raw data differ; the chart draws aspect lines
C22_Witness ==
    /\ pc = "drawnTwice"
    /\ FormatUTC(drawn1.Raw.UTCTime) # FormatUTC(drawn2.Raw.UTCTime)
    /\ drawn1.SVG # Nil
    /\ Len(drawn1.SVG.OuterAspects) > 0
    /\ drawn1.SVG = drawn2.SVG

(***************************************************************************)
(* C23: the relaxation loops terminate                                     *)
(***************************************************************************)
\* C23: for an ascending input of n >= 2 positions with n * (minSep + 0.1)
\* <= 360 the forward and the backward loop both terminate, and neither
\* runs more than n passes over the array, the pass that changes nothing
\* included
C23_LoopsTerminate ==
    /\ AdjPre ~> (pc = "done")
    /\ [](AdjPre => fwdPasses <= Len(degrees) /\ bwdPasses <= Len(degrees))

\* both loops needed all n = 3 passes
C23_Witness ==
    /\ pc = "done"
    /\ AdjPre
    /\ Len(degrees) = 3
    /\ fwdPasses = 3
    /\ bwdPasses = 3

(***************************************************************************)
(* C24: the forward pass only moves positions forward                      *)
(***************************************************************************)
\* C24: every update of the forward pass replaces a position by the larger
\* of the position and its predecessor plus step, so an update never gives
\* a position a smaller value than it had
C24_ForwardNeverLowers ==
    [][(FwdStep /\ AdjPre /\ FwdMoves(fwdDegs, idx, minDegree)) =>
          /\ fwdDegs'[idx + 1] >= fwdDegs[idx + 1]
          /\ fwdDegs'[idx + 1] =
                 IF fwdDegs[idx + 1] >= FwdPrev(fwdDegs, idx) + Step(minDegree)
                 THEN fwdDegs[idx + 1]
                 ELSE FwdPrev(fwdDegs, idx) + Step(minDegree)]_vars

(***************************************************************************)
(* C25: the merge of the two passes                                        *)
(***************************************************************************)
\* C25: the angle returned for an index is the circular average of the
\* forward and the backward result of that index: it lies in [0, 360), on
\* the shorter arc between the two, at the same distance from both
C25_CircularAverage ==
    (pc = "done" /\ AdjPre) =>
        \A k \in 1..Len(degrees) :
            /\ 0 <= avgAdj[k]
            /\ avgAdj[k] < Full
            /\ CircDist(avgAdj[k], fwdDegs[k]) = CircDist(avgAdj[k], bwdDegs[k])
            /\ CircDist(avgAdj[k], fwdDegs[k]) + CircDist(avgAdj[k], bwdDegs[k])
                   = CircDist(fwdDegs[k], bwdDegs[k])

(***************************************************************************)
(* C26: the renderer's aspect detection picks the closest enabled type     *)
(***************************************************************************)
\* the enabled aspect types whose exact angle the pair is within orb of
OrbWithin ==
    {k \in DOMAIN ASPECT_MEMBERS :
        /\ orbConfig.Orb[ASPECT_MEMBERS[k].Name] # 0
        /\ Abs(BodyAngle(orbBodies[1], orbBodies[2]) - Deg(ASPECT_MEMBERS[k].Value))
              <= Deg(orbConfig.Orb[ASPECT_MEMBERS[k].Name])}

OrbDeviation(value) == Abs(BodyAngle(orbBodies[1], orbBodies[2]) - Deg(value))

\* C26: under every orb configuration the detection gives a pair of bodies
\* at most one aspect, and that aspect is the enabled type within orb whose
\* exact angle deviates least from the pair's angle
C26_LeastDeviation ==
    pc \in {"orbDone", "orbCompositeDone"} =>
        /\ Len(orbAspects) <= 1
        /\ OrbWithin = {} <=> orbAspects = <<>>
        /\ \A a \in DOMAIN orbAspects :
              /\ \E k \in OrbWithin : ASPECT_MEMBERS[k] = orbAspects[a].AspectMember
              /\ \A k \in OrbWithin :
                    OrbDeviation(orbAspects[a].AspectMember.Value)
                        <= OrbDeviation(ASPECT_MEMBERS[k].Value)

(***************************************************************************)
(* C27: an input that is already spread out                                *)
(***************************************************************************)
\* every gap between neighbours of the input, the one from the last position
\* round to the first included, is at least the minimum separation
AlreadySeparated ==
    /\ Len(degrees) >= 2
    /\ \A k \in 1..(Len(degrees) - 1) : degrees[k + 1] - degrees[k] >= Deg(minDegree)
    /\ degrees[1] + Full - degrees[Len(degrees)] >= Deg(minDegree)

\* C27: when every adjacent circular gap of an ascending input of n >= 2
\* positions in [0, 360) is at least minSep already, adjustedDegrees
\* returns the input unchanged
C27_SeparatedUnchanged ==
    (pc = "done" /\ AlreadySeparated) => avgAdj = degrees

\* three positions, two of them exactly minSep apart, went through both loops
C27_Witness ==
    /\ pc = "done"
    /\ AlreadySeparated
    /\ Len(degrees) = 3
    /\ degrees[2] - degrees[1] = Deg(minDegree)
    /\ fwdPasses = 1
    /\ bwdPasses = 1
    /\ avgAdj = degrees

(***************************************************************************)
(* C28: the boundary rule finds a house unless all cusps coincide          *)
(***************************************************************************)
\* the 12 cusps are one point of the circle
CuspsCoincide == \A k \in 1..12 : houseCusps[k] % Full = houseCusps[1] % Full

\* the house returned by the call that has just been made
HouseReturned ==
    CASE pc = "houseAstroDone" -> houseAstro
      [] pc = "houseChartDone" -> houseChart
      [] pc = "houseServiceDone" -> houseService
      [] OTHER -> 0

\* C28: for 12 cusps that are not all equal modulo 360 the boundary rule
\* matches at least one house for every longitude, and each of the three
\* house functions returns the lowest-numbered matching house; no house
\* matches only when all 12 cusps coincide
C28_LowestMatchingHouse ==
    (pc \in {"houseAstroDone", "houseChartDone", "houseServiceDone"} /\ Len(houseCusps) = 12) =>
        /\ ~CuspsCoincide =>
              /\ \E h \in 1..12 : InSpan(planetLon, houseCusps, h)
              /\ InSpan(planetLon, houseCusps, HouseReturned)
              /\ \A h \in 1..12 : InSpan(planetLon, houseCusps, h) => HouseReturned <= h
        /\ NoBoundaryMatch => CuspsCoincide

\* descending cusps 330, 300, ..., 0: the longitude 10 is in the spans of
\* houses 1 to 10 and 12, and the service returns house 1
C28_Witness ==
    /\ pc = "houseServiceDone"
    /\ houseCusps = [k \in 1..12 |-> Deg(360 - 30 * k)]
    /\ planetLon = Deg(10)
    /\ InSpan(planetLon, houseCusps, 10)
    /\ InSpan(planetLon, houseCusps, 12)
    /\ houseService = 1

(***************************************************************************)
(* C29: the catalog's orb ranges do not overlap                            *)
(***************************************************************************)
\* FindBestAspect's loop run over the definitions in another order
RECURSIVE FindBestOver(_, _, _)
FindBestOver(defs, best, angle) ==
    IF defs = <<>> THEN best
    ELSE FindBestOver(Tail(defs), FindBestStep(best, angle, Head(defs)), angle)

\* C29: for every angular distance in [0, 180] at most one definition of
\* the catalog qualifies, so the aspect found does not depend on the order
\* the catalog declares its definitions in
C29_OneQualifies ==
    pc = "aspectDone" =>
        LET angle == CircDist(lon1, lon2)
            none == [Type |-> "", ExactAngle |-> 0, Orb |-> Deg(999)]
            backwards == FindBestOver(Reverse(GetAspectDefinitions), none, angle)
        IN  /\ Cardinality(Qualifying(angle)) <= 1
            /\ backwards.Type = (IF aspect = Nil THEN "" ELSE aspect.Type)
            /\ aspect # Nil => backwards.Orb = aspect.Orb

\* a quincunx at the edge of its orb that faces the sesquisquare
C29_Witness ==
    /\ pc = "aspectDone"
    /\ lon1 = Deg(10)
    /\ lon2 = Deg(158)
    /\ Cardinality(Qualifying(CircDist(lon1, lon2))) = 1
    /\ aspect # Nil
    /\ aspect.Type = "quincunx"

(***************************************************************************)
(* C30: the calculator's strength of an aspect                             *)
(***************************************************************************)
\* C30: after any sequence of SetAspectOrb and SetPlanetOrb calls, zero and
\* negative values included, GetAspectStrength returns a value in [0, 1]
\* for every aspect whose orb is not negative
C30_StrengthInUnitRange ==
    pc = "calcStrengthDone" =>
        \A k \in DOMAIN calcStrengths :
            calcAspects[k].Orb >= 0 =>
                /\ calcStrengths[k].Den > 0
                /\ 0 <= calcStrengths[k].Num
                /\ calcStrengths[k].Num <= calcStrengths[k].Den
====
